---- MODULE Spec2Model ----
(***************************************************************************)
(* The geometric analysis engine of the golf rating toolkit                *)
(* (src/index.tsx): distance, area, convex hull, width sampling, the EGD   *)
(* analyser, the shape classifier and the anomalous-shape analyser.        *)
(*                                                                         *)
(* Numbers.  The code computes in IEEE doubles; the model computes in      *)
(* integers, with these conventions:                                       *)
(*   - a GeoPoint's lat and lng are arc lengths in decimetres, so that     *)
(*     the code's  p.lat * PI/180 * R  is the identity; recorded points    *)
(*     lie on a grid of Step decimetres;                                   *)
(*   - Math.cos is the second-order cosine  1 - lat^2/(CosDen*CosCurv),    *)
(*     held as a numerator over CosDen.  The curvature is larger than the  *)
(*     earth's (a few percent across the grid) so that the latitude a      *)
(*     projection is anchored at is visible at the model's resolution, as  *)
(*     it is in doubles;                                                   *)
(*   - lengths are decimetres (yards: hundredths of a yard), Math.sqrt     *)
(*     and every division round down; comparisons of quotients are made    *)
(*     exactly, by cross-multiplication.                                   *)
(***************************************************************************)
EXTENDS Integers, Sequences, FiniteSets, TLC

\* ---- bounds of the model ----
MaxLat == 2
MaxLng == 2
MaxLen == 5
MaxShort == 4
MaxFew == 3
MaxFix == 2
MaxMapFix == 22
MaxHistory == 1
MaxKml == 3
MaxGreens == 2

\* ---- fixed-point parameters ----
Step == 160
CosDen == 4096
CosCurv == 1600

\* null and undefined; records, so that they compare with any result
Null == [null |-> TRUE]
Undefined == [undefined |-> TRUE]

Abs(x) == IF x < 0 THEN -x ELSE x
Max2(a, b) == IF a >= b THEN a ELSE b
Min2(a, b) == IF a <= b THEN a ELSE b

\* floor(sqrt(n)) by Newton's iteration from an estimate x >= sqrt(n), n > 0
RECURSIVE SqrtFrom(_, _)
SqrtFrom(n, x) ==
  LET y == (x + n \div x) \div 2
  IN  IF y >= x THEN x ELSE SqrtFrom(n, y)

\* Math.sqrt, rounded down
Sqrt(n) ==
  IF n = 0 THEN 0
  ELSE IF n < 65536 THEN SqrtFrom(n, 256)
  ELSE IF n < 1048576 THEN SqrtFrom(n, 1024)
  ELSE SqrtFrom(n, 46341)

\* <<q, r>> with a*b = q*c + r and 0 <= r < c, for a, b >= 0 and c > 0,
\* computed digit by digit so that no intermediate value exceeds 2*c + a
RECURSIVE MulDivRem(_, _, _)
MulDivRem(a, b, c) ==
  IF b = 0 THEN <<0, 0>>
  ELSE LET h  == MulDivRem(a, b \div 2, c)
           r2 == 2 * h[2] + (IF b % 2 = 1 THEN a % c ELSE 0)
           q2 == 2 * h[1] + (IF b % 2 = 1 THEN a \div c ELSE 0)
       IN  <<q2 + r2 \div c, r2 % c>>

\* floor(a*b/c) for integers a, b and c # 0 (the quotient of a product that
\* need not fit 32 bits)
MulDiv(a, b, c) ==
  IF b = 0 \/ Abs(a) <= 2147483647 \div Abs(b)
  THEN IF c > 0 THEN (a * b) \div c ELSE (-(a * b)) \div (-c)
  ELSE LET neg == ((a < 0) # (b < 0)) # (c < 0)
           m   == MulDivRem(Abs(a), Abs(b), Abs(c))
       IN  IF ~neg THEN m[1]
           ELSE IF m[2] = 0 THEN -m[1] ELSE -m[1] - 1

\* ---- GeoPoint ----
GeoPoint(lat, lng) == [lat |-> lat, lng |-> lng]

\* the recorded positions: grid points
Grid == { GeoPoint(Step * a, Step * b) : a \in 0..MaxLat, b \in 0..MaxLng }

\* Math.cos(lat * PI/180), as a numerator over CosDen
Cos(lat) == CosDen - (lat * lat) \div CosCurv

\* the projection anchored at latitude latRef: toX, toY and their inverse
toX(p, latRef) == (p.lng * Cos(latRef)) \div CosDen
toY(p) == p.lat
fromXY(x, y, latRef) == GeoPoint(y, (x * CosDen) \div Cos(latRef))

\* calculateDistance: the haversine distance, to second order in the
\* differences: sqrt(dLat^2 + cos(lat1)*cos(lat2)*dLng^2)
calculateDistance(p1, p2) ==
  LET dLat == p2.lat - p1.lat
      dLng == Abs(p2.lng - p1.lng)
      cc   == (Cos(p1.lat) * Cos(p2.lat)) \div CosDen
      a    == dLat * dLat + ((((dLng * cc) \div 64) * dLng) \div 64)
  IN  Sqrt(a)

\* ---- calculateArea ----
RECURSIVE ShoelaceSum(_, _, _)
ShoelaceSum(pts, lat0, i) ==
  IF i > Len(pts) THEN 0
  ELSE LET j == (i % Len(pts)) + 1
       IN  toX(pts[i], lat0) * toY(pts[j]) - toX(pts[j], lat0) * toY(pts[i])
             + ShoelaceSum(pts, lat0, i + 1)

\* calculateArea without Math.abs: the signed area
calculateArea_Signed(pts) ==
  IF Len(pts) < 3 THEN 0
  ELSE ShoelaceSum(pts, pts[1].lat, 1) \div 2

calculateArea(pts) ==
  IF Len(pts) < 3 THEN 0
  ELSE Abs(ShoelaceSum(pts, pts[1].lat, 1)) \div 2

\* ---- getConvexHull ----
\* the comparator of the sort: a before b
HullBefore(a, b) == IF a.lng # b.lng THEN a.lng < b.lng ELSE a.lat <= b.lat

RECURSIVE InsertSorted(_, _)
InsertSorted(sorted, p) ==
  IF sorted = <<>> THEN <<p>>
  ELSE IF HullBefore(sorted[Len(sorted)], p) THEN Append(sorted, p)
  ELSE Append(InsertSorted(SubSeq(sorted, 1, Len(sorted) - 1), p), sorted[Len(sorted)])

RECURSIVE SortPoints(_, _, _)
SortPoints(pts, i, acc) ==
  IF i > Len(pts) THEN acc ELSE SortPoints(pts, i + 1, InsertSorted(acc, pts[i]))

cp(a, b, c) == (b.lng - a.lng) * (c.lat - a.lat) - (b.lat - a.lat) * (c.lng - a.lng)

\* PopWhile that pops on cp < 0 only, keeping the points on a side
RECURSIVE PopWhile_KeepCollinear(_, _)
PopWhile_KeepCollinear(chain, p) ==
  IF Len(chain) >= 2 /\ cp(chain[Len(chain) - 1], chain[Len(chain)], p) < 0
  THEN PopWhile_KeepCollinear(SubSeq(chain, 1, Len(chain) - 1), p)
  ELSE chain

\* while (chain.length >= 2 && cp(...) <= 0) chain.pop()
RECURSIVE PopWhile(_, _)
PopWhile(chain, p) ==
  IF Len(chain) >= 2 /\ cp(chain[Len(chain) - 1], chain[Len(chain)], p) <= 0
  THEN PopWhile(SubSeq(chain, 1, Len(chain) - 1), p)
  ELSE chain

\* one chain of the hull over order[i..], order a sequence of indices into pts
RECURSIVE BuildChain(_, _, _, _)
BuildChain(pts, order, i, chain) ==
  IF i > Len(order) THEN chain
  ELSE BuildChain(pts, order, i + 1, Append(PopWhile(chain, pts[order[i]]), pts[order[i]]))

\* points.sort(...): the array handed in is itself sorted
SortedCopy_InPlace(points) ==
  [input |-> SortPoints(points, 1, <<>>), pts |-> SortPoints(points, 1, <<>>)]

\* [...points].sort(...): the copy is sorted (pts), the array handed in is
\* left as it was (input)
SortedCopy(points) ==
  [input |-> points, pts |-> SortPoints(points, 1, <<>>)]

\* getConvexHull with the upper chain built over pts in the order of the lower
getConvexHull_SameOrder(points) ==
  IF Len(points) < 3 THEN points
  ELSE LET pts   == SortedCopy(points).pts
           n     == Len(pts)
           lower == BuildChain(pts, [k \in 1..n |-> k], 1, <<>>)
       IN  SubSeq(lower, 1, Len(lower) - 1) \o SubSeq(lower, 1, Len(lower) - 1)

getConvexHull(points) ==
  IF Len(points) < 3 THEN points
  ELSE LET pts   == SortedCopy(points).pts
           n     == Len(pts)
           lower == BuildChain(pts, [k \in 1..n |-> k], 1, <<>>)
           upper == BuildChain(pts, [k \in 1..n |-> n + 1 - k], 1, <<>>)
       IN  SubSeq(lower, 1, Len(lower) - 1) \o SubSeq(upper, 1, Len(upper) - 1)

\* the array handed to getConvexHull, as the call leaves it
InputAfterHull(points) ==
  IF Len(points) < 3 THEN points ELSE SortedCopy(points).input

\* ---- getWidthAtAxisPoint ----
\* toX and toY applied to the points of a sequence
Project(pts, latRef) == [k \in 1..Len(pts) |-> [x |-> toX(pts[k], latRef), y |-> toY(pts[k])]]

\* The query point is (mX/den, mY/den); the unit normal is (-dy/mag, dx/mag);
\* poly is polyPoints under toX, toY.  With nx, ny substituted, det = detN/mag,
\* u = uN/(den*detN) and t = mag*tN/(den*detN): u is compared exactly, t is
\* rounded down.
\* the intersection with the edge from (x1, y1) along (sx, sy), if any
EdgeHit(mX, mY, den, dx, dy, mag, x1, y1, sx, sy) ==
  LET detN == (-sx) * dx - sy * dy
      uN   == (-(mX - den * x1)) * dx - (mY - den * y1) * dy
      D    == den * detN
  IN  IF detN = 0 THEN <<>>
      ELSE IF (D > 0 /\ uN >= 0 /\ uN <= D) \/ (D < 0 /\ uN <= 0 /\ uN >= D)
           THEN <<MulDiv(sx * (mY - den * y1) - sy * (mX - den * x1), mag, D)>>
           ELSE <<>>

\* Intersections over the edges between the recorded points only, without the
\* edge that closes the polygon
RECURSIVE Intersections_Open(_, _, _, _, _, _, _, _)
Intersections_Open(mX, mY, den, dx, dy, mag, poly, i) ==
  IF i > Len(poly) - 2 THEN <<>>
  ELSE EdgeHit(mX, mY, den, dx, dy, mag, poly[i].x, poly[i].y,
               poly[i + 1].x - poly[i].x, poly[i + 1].y - poly[i].y)
       \o Intersections_Open(mX, mY, den, dx, dy, mag, poly, i + 1)

RECURSIVE Intersections(_, _, _, _, _, _, _, _)
Intersections(mX, mY, den, dx, dy, mag, poly, i) ==
  IF i > Len(poly) - 1 THEN <<>>
  ELSE EdgeHit(mX, mY, den, dx, dy, mag, poly[i].x, poly[i].y,
               poly[i + 1].x - poly[i].x, poly[i + 1].y - poly[i].y)
       \o Intersections(mX, mY, den, dx, dy, mag, poly, i + 1)

RECURSIVE SeqMin(_)
SeqMin(s) == IF Len(s) = 1 THEN s[1] ELSE Min2(s[1], SeqMin(Tail(s)))
RECURSIVE SeqMax(_)
SeqMax(s) == IF Len(s) = 1 THEN s[1] ELSE Max2(s[1], SeqMax(Tail(s)))

\* the extreme intersections, or null when there are fewer than two
WidthOf(intersections) ==
  IF Len(intersections) < 2 THEN Null
  ELSE [minT |-> SeqMin(intersections), maxT |-> SeqMax(intersections)]

getWidthAtAxisPoint(mX, mY, den, dx, dy, mag, poly) ==
  WidthOf(Intersections(mX, mY, den, dx, dy, mag, poly, 1))

\* the Width Sampler as its callers use it: at k/4 of the axis from pA to pB,
\* over polyPoints = [...points, points[0]], projected at the latitude of pA
WidthOnAxis(points, latRef, xA, yA, dx, dy, k) ==
  getWidthAtAxisPoint(4 * xA + k * dx, 4 * yA + k * dy, 4, dx, dy,
                      Sqrt(dx * dx + dy * dy),
                      Project(Append(points, points[1]), latRef))

WidthAtMark(points, pA, pB, k) ==
  WidthOnAxis(points, pA.lat, toX(pA, pA.lat), toY(pA),
              toX(pB, pA.lat) - toX(pA, pA.lat), toY(pB) - toY(pA), k)

\* fromXY(pX + nx * t, pY + ny * t) for the point (mX/den, mY/den)
AlongNormal(mX, mY, den, dx, dy, mag, t, latRef) ==
  fromXY(mX \div den + ((-dy) * t) \div mag, mY \div den + (dx * t) \div mag, latRef)

\* ---- isPointInPolygon ----
\* The point is (p2x/2, p2y/2); the quotient is compared by cross-multiplication.
RECURSIVE CrossingsFrom(_, _, _, _, _)
CrossingsFrom(p2x, p2y, polygon, i, inside) ==
  IF i > Len(polygon) THEN inside
  ELSE LET j  == IF i = 1 THEN Len(polygon) ELSE i - 1
           xi == polygon[i].x
           yi == polygon[i].y
           xj == polygon[j].x
           yj == polygon[j].y
           lhs == (p2x - 2 * xi) * (yj - yi)
           rhs == (xj - xi) * (p2y - 2 * yi)
           intersect == ((2 * yi > p2y) # (2 * yj > p2y))
                        /\ (IF yj > yi THEN lhs < rhs ELSE lhs > rhs)
       IN  CrossingsFrom(p2x, p2y, polygon, i + 1, IF intersect THEN ~inside ELSE inside)

isPointInPolygon(p2x, p2y, polygon) == CrossingsFrom(p2x, p2y, polygon, 1, FALSE)

\* ---- getEGDAnalysis ----
\* metres to yards (* 1.09361): decimetres to hundredths of a yard
Yards(dm) == (dm * 109361) \div 10000

\* ScanPairs over the neighbours only: the pairs (i, i+1)
RECURSIVE ScanPairs_Adjacent(_, _, _, _)
ScanPairs_Adjacent(points, i, j, best) ==
  IF i >= Len(points) THEN best
  ELSE LET d == calculateDistance(points[i], points[i + 1])
       IN  ScanPairs_Adjacent(points, i + 1, i + 2,
                              IF d > best.maxD
                              THEN [maxD |-> d, pA |-> points[i], pB |-> points[i + 1]]
                              ELSE best)

\* the double loop over the pairs i < j, keeping the first strictly larger distance
RECURSIVE ScanPairs(_, _, _, _)
ScanPairs(points, i, j, best) ==
  IF i > Len(points) THEN best
  ELSE IF j > Len(points) THEN ScanPairs(points, i + 1, i + 2, best)
  ELSE LET d == calculateDistance(points[i], points[j])
       IN  ScanPairs(points, i, j + 1,
                     IF d > best.maxD
                     THEN [maxD |-> d, pA |-> points[i], pB |-> points[j]]
                     ELSE best)

\* Diameter taken along the first side of the perimeter
Diameter_FirstSide(points) ==
  [maxD |-> calculateDistance(points[1], points[2]), pA |-> points[1], pB |-> points[2]]

Diameter(points) ==
  ScanPairs(points, 1, 2, [maxD |-> 0, pA |-> points[1], pB |-> points[1]])

\* Math.round(egd_yds * 10) / 10 for egd_yds = num/den hundredths of a yard,
\* in tenths of a yard
RoundTenth(num, den) == (2 * num + 10 * den) \div (20 * den)

\* SelectMethod with the ratio brackets tried before the quarter widths
SelectMethod_RatioFirst(forceSimpleAverage, L_yds, W_yds, ratio, w1, w3, w1_yds, w3_yds) ==
  IF forceSimpleAverage
  THEN [num |-> L_yds + W_yds, den |-> 2, method |-> "Average (L+W)/2", isInconsistent |-> FALSE]
  ELSE IF ratio.n >= 3 * ratio.d
  THEN [num |-> 3 * W_yds + L_yds, den |-> 4,
        method |-> "One dimension three times the other", isInconsistent |-> FALSE]
  ELSE IF ratio.n >= 2 * ratio.d
  THEN [num |-> 2 * W_yds + L_yds, den |-> 3,
        method |-> "One dimension twice the other", isInconsistent |-> FALSE]
  ELSE IF w1 # Null /\ w3 # Null /\ Max2(w1_yds, w3_yds) # 0
          /\ 100 * Abs(w1_yds - w3_yds) > 25 * Max2(w1_yds, w3_yds)
  THEN [num |-> 2 * L_yds + w1_yds + w3_yds, den |-> 4,
        method |-> "One dimension not consistent", isInconsistent |-> TRUE]
  ELSE [num |-> L_yds + W_yds, den |-> 2, method |-> "Average (L+W)/2", isInconsistent |-> FALSE]

\* SelectMethod without the forceSimpleAverage test
SelectMethod_IgnoreForce(forceSimpleAverage, L_yds, W_yds, ratio, w1, w3, w1_yds, w3_yds) ==
  IF w1 # Null /\ w3 # Null /\ Max2(w1_yds, w3_yds) # 0
     /\ 100 * Abs(w1_yds - w3_yds) > 25 * Max2(w1_yds, w3_yds)
  THEN [num |-> 2 * L_yds + w1_yds + w3_yds, den |-> 4,
        method |-> "One dimension not consistent", isInconsistent |-> TRUE]
  ELSE IF ratio.n >= 3 * ratio.d
  THEN [num |-> 3 * W_yds + L_yds, den |-> 4,
        method |-> "One dimension three times the other", isInconsistent |-> FALSE]
  ELSE IF ratio.n >= 2 * ratio.d
  THEN [num |-> 2 * W_yds + L_yds, den |-> 3,
        method |-> "One dimension twice the other", isInconsistent |-> FALSE]
  ELSE [num |-> L_yds + W_yds, den |-> 2, method |-> "Average (L+W)/2", isInconsistent |-> FALSE]

\* the method selection: egd_yds as num/den, the method and isInconsistent.
\* Math.abs(w1_yds - w3_yds) / Math.max(w1_yds, w3_yds) is 0/0 = NaN when both
\* quarter widths are 0, and NaN > 0.25 is false.
SelectMethod(forceSimpleAverage, L_yds, W_yds, ratio, w1, w3, w1_yds, w3_yds) ==
  IF forceSimpleAverage
  THEN [num |-> L_yds + W_yds, den |-> 2, method |-> "Average (L+W)/2", isInconsistent |-> FALSE]
  ELSE IF w1 # Null /\ w3 # Null /\ Max2(w1_yds, w3_yds) # 0
          /\ 100 * Abs(w1_yds - w3_yds) > 25 * Max2(w1_yds, w3_yds)
  THEN [num |-> 2 * L_yds + w1_yds + w3_yds, den |-> 4,
        method |-> "One dimension not consistent", isInconsistent |-> TRUE]
  ELSE IF ratio.n >= 3 * ratio.d
  THEN [num |-> 3 * W_yds + L_yds, den |-> 4,
        method |-> "One dimension three times the other", isInconsistent |-> FALSE]
  ELSE IF ratio.n >= 2 * ratio.d
  THEN [num |-> 2 * W_yds + L_yds, den |-> 3,
        method |-> "One dimension twice the other", isInconsistent |-> FALSE]
  ELSE [num |-> L_yds + W_yds, den |-> 2, method |-> "Average (L+W)/2", isInconsistent |-> FALSE]

\* ratio = W_yds === 0 ? 0 : L_yds / W_yds, as a fraction n/d
Ratio(L_yds, W_yds) ==
  IF W_yds = 0 THEN [n |-> 0, d |-> 1] ELSE [n |-> L_yds, d |-> W_yds]

\* The body of getEGDAnalysis past its guard, one operator per step; each step
\* hands what it computed to the next.  The axis points at k/4 of the diameter
\* are (4*xA + k*dx, 4*yA + k*dy) over 4.

\* EGDResult carrying the quarter end points whenever both quarters resolve
EGDResult_QuartersResolved(diam, latRef, xA, yA, dx, dy, mag, midW, w1, w3, L_yds, W_yds, w1_yds, w3_yds, sel) ==
  [ egd |-> RoundTenth(sel.num, sel.den),
    L |-> L_yds, W |-> W_yds, ratio |-> Ratio(L_yds, W_yds),
    pA |-> diam.pA, pB |-> diam.pB,
    pC |-> AlongNormal(4 * xA + 2 * dx, 4 * yA + 2 * dy, 4, dx, dy, mag,
                       IF midW # Null THEN midW.maxT ELSE 0, latRef),
    pD |-> AlongNormal(4 * xA + 2 * dx, 4 * yA + 2 * dy, 4, dx, dy, mag,
                       IF midW # Null THEN midW.minT ELSE 0, latRef),
    method |-> sel.method,
    isInconsistent |-> sel.isInconsistent,
    w1_yds |-> w1_yds, w3_yds |-> w3_yds,
    pC1 |-> IF w1 # Null /\ w3 # Null
            THEN AlongNormal(4 * xA + dx, 4 * yA + dy, 4, dx, dy, mag, w1.maxT, latRef)
            ELSE Undefined,
    pD1 |-> IF w1 # Null /\ w3 # Null
            THEN AlongNormal(4 * xA + dx, 4 * yA + dy, 4, dx, dy, mag, w1.minT, latRef)
            ELSE Undefined,
    pC3 |-> IF w1 # Null /\ w3 # Null
            THEN AlongNormal(4 * xA + 3 * dx, 4 * yA + 3 * dy, 4, dx, dy, mag, w3.maxT, latRef)
            ELSE Undefined,
    pD3 |-> IF w1 # Null /\ w3 # Null
            THEN AlongNormal(4 * xA + 3 * dx, 4 * yA + 3 * dy, 4, dx, dy, mag, w3.minT, latRef)
            ELSE Undefined ]

\* the object returned
EGDResult(diam, latRef, xA, yA, dx, dy, mag, midW, w1, w3, L_yds, W_yds, w1_yds, w3_yds, sel) ==
  [ egd |-> RoundTenth(sel.num, sel.den),
    L |-> L_yds, W |-> W_yds, ratio |-> Ratio(L_yds, W_yds),
    pA |-> diam.pA, pB |-> diam.pB,
    pC |-> AlongNormal(4 * xA + 2 * dx, 4 * yA + 2 * dy, 4, dx, dy, mag,
                       IF midW # Null THEN midW.maxT ELSE 0, latRef),
    pD |-> AlongNormal(4 * xA + 2 * dx, 4 * yA + 2 * dy, 4, dx, dy, mag,
                       IF midW # Null THEN midW.minT ELSE 0, latRef),
    method |-> sel.method,
    isInconsistent |-> sel.isInconsistent,
    w1_yds |-> w1_yds, w3_yds |-> w3_yds,
    pC1 |-> IF sel.isInconsistent
            THEN AlongNormal(4 * xA + dx, 4 * yA + dy, 4, dx, dy, mag, w1.maxT, latRef)
            ELSE Undefined,
    pD1 |-> IF sel.isInconsistent
            THEN AlongNormal(4 * xA + dx, 4 * yA + dy, 4, dx, dy, mag, w1.minT, latRef)
            ELSE Undefined,
    pC3 |-> IF sel.isInconsistent
            THEN AlongNormal(4 * xA + 3 * dx, 4 * yA + 3 * dy, 4, dx, dy, mag, w3.maxT, latRef)
            ELSE Undefined,
    pD3 |-> IF sel.isInconsistent
            THEN AlongNormal(4 * xA + 3 * dx, 4 * yA + 3 * dy, 4, dx, dy, mag, w3.minT, latRef)
            ELSE Undefined ]

\* the method is selected
EGDSelect(forceSimpleAverage, diam, latRef, xA, yA, dx, dy, mag, midW, w1, w3, L_yds, W_yds, w1_yds, w3_yds) ==
  EGDResult(diam, latRef, xA, yA, dx, dy, mag, midW, w1, w3,
            L_yds, W_yds, w1_yds, w3_yds,
            SelectMethod(forceSimpleAverage, L_yds, W_yds, Ratio(L_yds, W_yds),
                         w1, w3, w1_yds, w3_yds))

\* the length and the widths in yards; the quarter widths stay 0 unless both
\* resolve and forceSimpleAverage is false
EGDYards(forceSimpleAverage, diam, latRef, xA, yA, dx, dy, mag, midW, w1, w3) ==
  EGDSelect(forceSimpleAverage, diam, latRef, xA, yA, dx, dy, mag, midW, w1, w3,
            Yards(diam.maxD),
            Yards(IF midW # Null THEN midW.maxT - midW.minT ELSE 0),
            IF (~forceSimpleAverage) /\ w1 # Null /\ w3 # Null
            THEN Yards(w1.maxT - w1.minT) ELSE 0,
            IF (~forceSimpleAverage) /\ w1 # Null /\ w3 # Null
            THEN Yards(w3.maxT - w3.minT) ELSE 0)

\* the widths at the midpoint and at the quarters of the axis
EGDWidths(forceSimpleAverage, diam, latRef, xA, yA, dx, dy, mag, polyPoints) ==
  EGDYards(forceSimpleAverage, diam, latRef, xA, yA, dx, dy, mag,
           getWidthAtAxisPoint(4 * xA + 2 * dx, 4 * yA + 2 * dy, 4, dx, dy, mag, polyPoints),
           getWidthAtAxisPoint(4 * xA + dx, 4 * yA + dy, 4, dx, dy, mag, polyPoints),
           getWidthAtAxisPoint(4 * xA + 3 * dx, 4 * yA + 3 * dy, 4, dx, dy, mag, polyPoints))

\* EGDPoly testing dx alone for a degenerate axis
EGDPoly_DxOnly(points, forceSimpleAverage, diam, latRef, xA, yA, dx, dy, mag) ==
  IF dx = 0 THEN Null
  ELSE EGDWidths(forceSimpleAverage, diam, latRef, xA, yA, dx, dy, mag,
                 Project(Append(points, points[1]), latRef))

\* if (mag === 0) return null; polyPoints = [...points, points[0]] projected
EGDPoly(points, forceSimpleAverage, diam, latRef, xA, yA, dx, dy, mag) ==
  IF mag = 0 THEN Null
  ELSE EGDWidths(forceSimpleAverage, diam, latRef, xA, yA, dx, dy, mag,
                 Project(Append(points, points[1]), latRef))

\* the axis, projected at the latitude of pA
EGDAxis(points, forceSimpleAverage, diam, latRef, xA, yA, dx, dy) ==
  EGDPoly(points, forceSimpleAverage, diam, latRef, xA, yA, dx, dy,
          Sqrt(dx * dx + dy * dy))

EGDOnDiameter(points, forceSimpleAverage, diam) ==
  EGDAxis(points, forceSimpleAverage, diam, diam.pA.lat,
          toX(diam.pA, diam.pA.lat), toY(diam.pA),
          toX(diam.pB, diam.pA.lat) - toX(diam.pA, diam.pA.lat),
          toY(diam.pB) - toY(diam.pA))

\* getEGDAnalysis past its guard on the number of points
EGDOf(points, forceSimpleAverage) ==
  EGDOnDiameter(points, forceSimpleAverage, Diameter(points))

\* getEGDAnalysis guarded at two points instead of three
getEGDAnalysis_Guard2(points, forceSimpleAverage) ==
  IF Len(points) < 2 THEN Null ELSE EGDOf(points, forceSimpleAverage)

getEGDAnalysis(points, forceSimpleAverage) ==
  IF Len(points) < 3 THEN Null ELSE EGDOf(points, forceSimpleAverage)

\* SpinePoint keeping the axis point itself where no width was found
SpinePoint_OnAxis(curX, curY, steps, dx, dy, mag, latRef, res) ==
  IF res # Null
  THEN <<AlongNormal(curX, curY, steps, dx, dy, mag, (res.minT + res.maxT) \div 2, latRef)>>
  ELSE <<AlongNormal(curX, curY, steps, dx, dy, mag, 0, latRef)>>

\* ---- performAnomalousAnalysis ----
\* the centre of the width found at an axis point, if one was found
SpinePoint(curX, curY, steps, dx, dy, mag, latRef, res) ==
  IF res # Null
  THEN <<AlongNormal(curX, curY, steps, dx, dy, mag, (res.minT + res.maxT) \div 2, latRef)>>
  ELSE <<>>

\* the spine: the samples i = from..steps along the axis, those that resolve
RECURSIVE SpineFrom(_, _, _, _, _, _, _, _, _)
SpineFrom(i, steps, xA, yA, dx, dy, mag, polyPoints, latRef) ==
  IF i > steps THEN <<>>
  ELSE SpinePoint(steps * xA + dx * i, steps * yA + dy * i, steps, dx, dy, mag, latRef,
                  getWidthAtAxisPoint(steps * xA + dx * i, steps * yA + dy * i, steps,
                                      dx, dy, mag, polyPoints))
       \o SpineFrom(i + 1, steps, xA, yA, dx, dy, mag, polyPoints, latRef)

RECURSIVE PathLength(_, _)
PathLength(path, i) ==
  IF i > Len(path) - 1 THEN 0
  ELSE calculateDistance(path[i], path[i + 1]) + PathLength(path, i + 1)

milestoneColors == <<"#fb923c", "#facc15", "#f472b6">>
milestoneLabels == <<"W1", "W2", "W3">>

\* the width sample at milestone idx, if it resolves
Milestone(idx, curX, curY, dx, dy, mag, latRef, res) ==
  IF res # Null
  THEN << [ w |-> Yards(res.maxT - res.minT),
            p1 |-> AlongNormal(curX, curY, 4, dx, dy, mag, res.maxT, latRef),
            p2 |-> AlongNormal(curX, curY, 4, dx, dy, mag, res.minT, latRef),
            label |-> milestoneLabels[idx],
            color |-> milestoneColors[idx] ] >>
  ELSE <<>>

\* SampledFrom with the milestones taken one quarter early: at (idx-1)/4
RECURSIVE SampledFrom_Early(_, _, _, _, _, _, _, _)
SampledFrom_Early(idx, xA, yA, dx, dy, mag, polyPoints, latRef) ==
  IF idx > 3 THEN <<>>
  ELSE Milestone(idx, 4 * xA + dx * (idx - 1), 4 * yA + dy * (idx - 1), dx, dy, mag, latRef,
                 getWidthAtAxisPoint(4 * xA + dx * (idx - 1), 4 * yA + dy * (idx - 1), 4,
                                     dx, dy, mag, polyPoints))
       \o SampledFrom_Early(idx + 1, xA, yA, dx, dy, mag, polyPoints, latRef)

\* the width samples at the milestones idx/4, idx = from..3
RECURSIVE SampledFrom(_, _, _, _, _, _, _, _)
SampledFrom(idx, xA, yA, dx, dy, mag, polyPoints, latRef) ==
  IF idx > 3 THEN <<>>
  ELSE Milestone(idx, 4 * xA + dx * idx, 4 * yA + dy * idx, dx, dy, mag, latRef,
                 getWidthAtAxisPoint(4 * xA + dx * idx, 4 * yA + dy * idx, 4,
                                     dx, dy, mag, polyPoints))
       \o SampledFrom(idx + 1, xA, yA, dx, dy, mag, polyPoints, latRef)

\* AnomalousResult with the curved length compared to the straight length
\* itself, without the factor 1.15
AnomalousResult_NoMargin(curvedLenYds, straightLenYds, spinePoints, sampledWidths) ==
  [ method |-> "Anomalous Green Detected",
    isAnomalous |-> TRUE,
    isManualReq |-> curvedLenYds > straightLenYds,
    curvedLength |-> curvedLenYds,
    straightLength |-> straightLenYds,
    spine |-> spinePoints,
    widths |-> sampledWidths ]

\* the object returned
AnomalousResult(curvedLenYds, straightLenYds, spinePoints, sampledWidths) ==
  [ method |-> "Anomalous Green Detected",
    isAnomalous |-> TRUE,
    isManualReq |-> 100 * curvedLenYds > 115 * straightLenYds,
    curvedLength |-> curvedLenYds,
    straightLength |-> straightLenYds,
    spine |-> spinePoints,
    widths |-> sampledWidths ]

\* the curved length (along the spine) and the straight length (mag), in yards
AnomalousLengths(mag, spinePoints, sampledWidths) ==
  AnomalousResult(Yards(PathLength(spinePoints, 1)), Yards(mag), spinePoints, sampledWidths)

\* if (mag === 0) return null; the spine of 15 steps and the three milestones
AnomalousPoly(points, latRef, xA, yA, dx, dy, mag, polyPoints) ==
  AnomalousLengths(mag,
                   SpineFrom(0, 15, xA, yA, dx, dy, mag, polyPoints, latRef),
                   SampledFrom(1, xA, yA, dx, dy, mag, polyPoints, latRef))

AnomalousMag(points, latRef, xA, yA, dx, dy, mag) ==
  IF mag = 0 THEN Null
  ELSE AnomalousPoly(points, latRef, xA, yA, dx, dy, mag,
                     Project(Append(points, points[1]), latRef))

AnomalousAxis(points, latRef, xA, yA, dx, dy) ==
  AnomalousMag(points, latRef, xA, yA, dx, dy, Sqrt(dx * dx + dy * dy))

performAnomalousAnalysis(points, pA, pB) ==
  AnomalousAxis(points, pA.lat, toX(pA, pA.lat), toY(pA),
                toX(pB, pA.lat) - toX(pA, pA.lat), toY(pB) - toY(pA))

\* ---- analyzeGreenShape ----
\* the index (from 1) of the first point at the largest distance from the axis;
\* the distances share the divisor mag > 0, so their numerators are compared
RECURSIVE ElbowFrom(_, _, _, _, _, _, _, _, _)
ElbowFrom(points, latRef, xA, yA, xB, yB, idx, elbowIdx, maxElbowDist) ==
  IF idx > Len(points) THEN elbowIdx
  ELSE LET px == toX(points[idx], latRef)
           py == toY(points[idx])
           dist == Abs((xB - xA) * (yA - py) - (xA - px) * (yB - yA))
       IN  IF dist > maxElbowDist
           THEN ElbowFrom(points, latRef, xA, yA, xB, yB, idx + 1, idx, dist)
           ELSE ElbowFrom(points, latRef, xA, yA, xB, yB, idx + 1, elbowIdx, maxElbowDist)

\* is the midpoint of a's diameter outside the polygon?
MidpointOutside(a, polyCoords, latRef) ==
  ~isPointInPolygon(toX(a.pA, latRef) + toX(a.pB, latRef),
                    toY(a.pA) + toY(a.pB), polyCoords)

\* concavity < concavityThreshold, for concavity = polyArea / hullArea when
\* hullArea > 0 and 1 otherwise; concavityThreshold in hundredths (0.82 is 82)
Concave(polyArea, hullArea, concavityThreshold) ==
  IF hullArea > 0
  THEN 100 * polyArea < concavityThreshold * hullArea
  ELSE 100 < concavityThreshold

\* basic.ratio > 3.6
Elongated(ratio) == 10 * ratio.n > 36 * ratio.d

\* IsLShape without the ratio test
IsLShape_NoRatio(midpointIsOutside, concave, elongated) ==
  midpointIsOutside \/ concave

IsLShape(midpointIsOutside, concave, elongated) ==
  midpointIsOutside \/ concave \/ elongated

\* HasAnomaly testing the first portion only
HasAnomaly_FirstOnly(s1, s2, polyCoords, latRef) ==
  s1 # Null /\ MidpointOutside(s1, polyCoords, latRef)

\* hasAnomaly: the diameter midpoint of a portion is outside the polygon
HasAnomaly(s1, s2, polyCoords, latRef) ==
  \/ s1 # Null /\ MidpointOutside(s1, polyCoords, latRef)
  \/ s2 # Null /\ MidpointOutside(s2, polyCoords, latRef)

\* ReportedMethod with the label of the two portions whatever the analysis
ReportedMethod_TwoPortions(anomalousResult) == "Two portions"

\* the method reported for an L-shape
ReportedMethod(anomalousResult) ==
  IF anomalousResult # Null THEN anomalousResult.method ELSE "Two portions"

\* the object returned for an L-shape
LShapeResult(basic, s1, s2, hasAnomaly, anomalousResult) ==
  [ basic EXCEPT !.method = ReportedMethod(anomalousResult) ]
  @@ [ isLShape |-> TRUE, hasAnomaly |-> hasAnomaly,
       anomalousResult |-> anomalousResult, s1 |-> s1, s2 |-> s2 ]

\* LShapeAnomaly handing the anomalous analysis an axis from pA to pA
LShapeAnomaly_SamePoint(points, basic, s1, s2, hasAnomaly) ==
  LShapeResult(basic, s1, s2, hasAnomaly,
               IF hasAnomaly THEN performAnomalousAnalysis(points, basic.pA, basic.pA)
               ELSE Null)

\* the anomalous analysis, on the whole perimeter and the whole-shape diameter
LShapeAnomaly(points, basic, s1, s2, hasAnomaly) ==
  LShapeResult(basic, s1, s2, hasAnomaly,
               IF hasAnomaly THEN performAnomalousAnalysis(points, basic.pA, basic.pB)
               ELSE Null)

LShapePortions(points, basic, polyCoords, latRef, s1, s2) ==
  LShapeAnomaly(points, basic, s1, s2, HasAnomaly(s1, s2, polyCoords, latRef))

\* LShapeSplit with the second portion starting after the elbow:
\* points.slice(elbowIdx + 1)
LShapeSplit_NotShared(points, basic, polyCoords, latRef, elbowIdx) ==
  LShapePortions(points, basic, polyCoords, latRef,
                 getEGDAnalysis(SubSeq(points, 1, elbowIdx), TRUE),
                 getEGDAnalysis(SubSeq(points, elbowIdx + 1, Len(points)), TRUE))

\* the two portions: points.slice(0, elbowIdx + 1) and points.slice(elbowIdx)
LShapeSplit(points, basic, polyCoords, latRef, elbowIdx) ==
  LShapePortions(points, basic, polyCoords, latRef,
                 getEGDAnalysis(SubSeq(points, 1, elbowIdx), TRUE),
                 getEGDAnalysis(SubSeq(points, elbowIdx, Len(points)), TRUE))

\* Classify with the plain result carrying a null anomalousResult as well
Classify_NullAnomalous(points, concavityThreshold, basic, polyArea, hullArea, polyCoords, latRef) ==
  IF IsLShape(MidpointOutside(basic, polyCoords, latRef),
              Concave(polyArea, hullArea, concavityThreshold),
              Elongated(basic.ratio))
  THEN LShapeSplit(points, basic, polyCoords, latRef,
                   ElbowFrom(points, latRef, toX(basic.pA, latRef), toY(basic.pA),
                             toX(basic.pB, latRef), toY(basic.pB), 1, 1, -1))
  ELSE basic @@ [ isLShape |-> FALSE, hasAnomaly |-> FALSE, s1 |-> Null, s2 |-> Null,
                  anomalousResult |-> Null ]

\* the classification, and the split at the elbow for an L-shape
Classify(points, concavityThreshold, basic, polyArea, hullArea, polyCoords, latRef) ==
  IF IsLShape(MidpointOutside(basic, polyCoords, latRef),
              Concave(polyArea, hullArea, concavityThreshold),
              Elongated(basic.ratio))
  THEN LShapeSplit(points, basic, polyCoords, latRef,
                   ElbowFrom(points, latRef, toX(basic.pA, latRef), toY(basic.pA),
                             toX(basic.pB, latRef), toY(basic.pB), 1, 1, -1))
  ELSE basic @@ [ isLShape |-> FALSE, hasAnomaly |-> FALSE, s1 |-> Null, s2 |-> Null ]

\* if (!basic) return null; the areas, and the polygon projected at points[0].lat
ShapeOf(points, concavityThreshold, basic) ==
  IF basic = Null THEN Null
  ELSE Classify(points, concavityThreshold, basic,
                calculateArea(points), calculateArea(getConvexHull(points)),
                Project(points, points[1].lat), points[1].lat)

analyzeGreenShape(points, concavityThreshold) ==
  IF Len(points) < 3 THEN Null
  ELSE ShapeOf(points, concavityThreshold, getEGDAnalysis(points, FALSE))

\* ---- the effective paths of a track ----
\* a recorded position with the time of its fix; timestamps are in tenths of
\* a millisecond, so that the steps of 1/10 of getInterpolatedLine are exact
Ms == 10
TrackPoint(lat, lng, timestamp) == [lat |-> lat, lng |-> lng, timestamp |-> timestamp]

\* getInterpolatedLine(p1, p2, numSegments): p1 alone when the two timestamps
\* are equal, else p1, the numSegments - 1 points between, p2
getInterpolatedLine(p1, p2, numSegments) ==
  IF p1.timestamp = p2.timestamp THEN <<p1>>
  ELSE <<p1>>
       \o [ i \in 1..(numSegments - 1) |->
              TrackPoint(p1.lat + ((p2.lat - p1.lat) * i) \div numSegments,
                         p1.lng + ((p2.lng - p1.lng) * i) \div numSegments,
                         p1.timestamp + ((p2.timestamp - p1.timestamp) * i) \div numSegments) ]
       \o <<p2>>

\* calculatePathDistanceAndElevation, the distance: the summed haversine
\* lengths times distMult (in 1/100000); the altitudes are not modelled
PathDistance(path, distMult) ==
  IF Len(path) > 1 THEN (PathLength(path, 1) * distMult) \div 100000 ELSE 0

\* Array.prototype.sort by the times given for the elements: stable
SortByTime(s, times) ==
  [ k \in 1..Len(s) |->
      s[CHOOSE i \in 1..Len(s) :
          Cardinality({ j \in 1..Len(s) : times[j] < times[i]
                                          \/ (times[j] = times[i] /\ j < i) }) = k - 1] ]

\* [...pivotRecords].sort((a, b) => a.point.timestamp - b.point.timestamp)
SortPivots(pivotRecords) ==
  SortByTime(pivotRecords, [k \in 1..Len(pivotRecords) |-> pivotRecords[k].point.timestamp])

\* .sort((a, b) => a.timestamp - b.timestamp)
SortAnchors(anchors) ==
  SortByTime(anchors, [k \in 1..Len(anchors) |-> anchors[k].timestamp])

\* Array.from(new Map(anchors.map(p => [p.timestamp, p])).values()): one entry
\* for each timestamp, at the place of its first point, holding its last point
RECURSIVE UniqueTimesFrom(_, _)
UniqueTimesFrom(anchors, i) ==
  IF i > Len(anchors) THEN <<>>
  ELSE (IF \A j \in 1..(i - 1) : anchors[j].timestamp # anchors[i].timestamp
        THEN << anchors[CHOOSE j \in i..Len(anchors) :
                          /\ anchors[j].timestamp = anchors[i].timestamp
                          /\ \A k \in (j + 1)..Len(anchors) :
                                anchors[k].timestamp # anchors[i].timestamp] >>
        ELSE <<>>)
       \o UniqueTimesFrom(anchors, i + 1)

\* the pivots that anchor the scratch path (common, scratch_cut) or the bogey
\* path (common, bogey_round)
AnchoringPivots(sortedPivots, forScratch) ==
  SelectSeq(sortedPivots,
            LAMBDA pivot : \/ pivot.type = "common"
                           \/ pivot.type = (IF forScratch THEN "scratch_cut" ELSE "bogey_round"))

\* the end point is added if its timestamp is not that of the last anchor
WithEndPoint(anchors, endPoint) ==
  IF anchors[Len(anchors)].timestamp # endPoint.timestamp
  THEN Append(anchors, endPoint) ELSE anchors

getAnchors(forScratch, sortedPivots, startPoint, endPoint) ==
  SortAnchors(UniqueTimesFrom(WithEndPoint(<<startPoint>>
                                          \o [ k \in 1..Len(AnchoringPivots(sortedPivots, forScratch)) |->
                                                 AnchoringPivots(sortedPivots, forScratch)[k].point ],
                                          endPoint), 1))

\* raterPathPoints.findIndex(rp => rp.timestamp === timestamp), counted from
\* 1, 0 when there is none
findIndex(raterPathPoints, timestamp) ==
  IF \E k \in 1..Len(raterPathPoints) : raterPathPoints[k].timestamp = timestamp
  THEN CHOOSE k \in 1..Len(raterPathPoints) :
         /\ raterPathPoints[k].timestamp = timestamp
         /\ \A j \in 1..(k - 1) : raterPathPoints[j].timestamp # timestamp
  ELSE 0

\* does a pivot of the given type lie on the rater's path strictly between
\* the places i1 and i2?
PivotSkipped(type, sortedPivots, raterPathPoints, i1, i2) ==
  \E k \in 1..Len(sortedPivots) :
    /\ sortedPivots[k].type = type
    /\ \E j \in (i1 + 1)..(i2 - 1) :
          raterPathPoints[j].timestamp = sortedPivots[k].point.timestamp

\* shouldBeStraight for the segment p1-p2 found at places i1 and i2
shouldBeStraight(p2, isScratchPath, raterPathPoints, sortedPivots, i1, i2) ==
  \/ i1 = 0
  \/ i2 = 0
  \/ i1 >= i2
  \/ /\ isScratchPath
     /\ \/ \E k \in 1..Len(sortedPivots) :
             sortedPivots[k].point.timestamp = p2.timestamp /\ sortedPivots[k].type = "scratch_cut"
        \/ PivotSkipped("bogey_round", sortedPivots, raterPathPoints, i1, i2)
  \/ /\ ~isScratchPath
     /\ PivotSkipped("scratch_cut", sortedPivots, raterPathPoints, i1, i2)

\* what the segment p1-p2 adds to the path: the interpolated line or the
\* rater's own points, p1 excluded
PathSegment(p1, p2, isScratchPath, raterPathPoints, sortedPivots, i1, i2) ==
  IF shouldBeStraight(p2, isScratchPath, raterPathPoints, sortedPivots, i1, i2)
  THEN Tail(getInterpolatedLine(p1, p2, 10))
  ELSE SubSeq(raterPathPoints, i1 + 1, i2)

\* buildFinalPath from the segment after anchor i on
RECURSIVE SegmentsFrom(_, _, _, _, _)
SegmentsFrom(anchors, i, isScratchPath, raterPathPoints, sortedPivots) ==
  IF i > Len(anchors) - 1 THEN <<>>
  ELSE PathSegment(anchors[i], anchors[i + 1], isScratchPath, raterPathPoints, sortedPivots,
                   findIndex(raterPathPoints, anchors[i].timestamp),
                   findIndex(raterPathPoints, anchors[i + 1].timestamp))
       \o SegmentsFrom(anchors, i + 1, isScratchPath, raterPathPoints, sortedPivots)

buildFinalPath(anchors, isScratchPath, raterPathPoints, sortedPivots) ==
  IF Len(anchors) = 0 THEN <<>>
  ELSE <<anchors[1]>> \o SegmentsFrom(anchors, 1, isScratchPath, raterPathPoints, sortedPivots)

\* the object returned for the two final paths
EffectiveMetrics(finalScratchPath, finalBogeyPath, distMult) ==
  [ effectivePaths |-> [scratch |-> finalScratchPath, bogey |-> finalBogeyPath],
    effectiveDistances |-> [scratch |-> PathDistance(finalScratchPath, distMult),
                            bogey |-> PathDistance(finalBogeyPath, distMult)] ]

\* the paths built on the sorted pivots
EffectivePaths(raterPathPoints, sortedPivots, distMult) ==
  EffectiveMetrics(
    buildFinalPath(getAnchors(TRUE, sortedPivots, raterPathPoints[1],
                              raterPathPoints[Len(raterPathPoints)]),
                   TRUE, raterPathPoints, sortedPivots),
    buildFinalPath(getAnchors(FALSE, sortedPivots, raterPathPoints[1],
                              raterPathPoints[Len(raterPathPoints)]),
                   FALSE, raterPathPoints, sortedPivots),
    distMult)

calculateEffectivePathsAndMetrics(raterPathPoints, pivotRecords, distMult) ==
  IF Len(raterPathPoints) < 2
  THEN [ effectivePaths |-> [scratch |-> <<>>, bogey |-> <<>>],
         effectiveDistances |-> [scratch |-> 0, bogey |-> 0] ]
  ELSE EffectivePaths(raterPathPoints, SortPivots(pivotRecords), distMult)

\* ---- the saved records ----
\* holeNumber of a record that has none (undefined)
NoHole == 0

\* a Green record: the perimeter and the hole; the texts shown in the list
\* (area, bunker share, EGD), the id and the date are not kept
GreenRecord(perimeter, holeNumber) ==
  [type |-> "Green", points |-> perimeter, holeNumber |-> holeNumber]

\* a Track record: the rater's path, the pivots, the effective paths and
\* distances, and the hole
TrackRecord(raterPath, pivots, metrics, holeNumber) ==
  [type |-> "Track", points |-> raterPath, raterPathPoints |-> raterPath,
   pivotPoints |-> pivots, effectivePaths |-> metrics.effectivePaths,
   effectiveDistances |-> metrics.effectiveDistances, holeNumber |-> holeNumber]

\* ---- the engine and its callers ----
\* CONCAVITY_FIXED = 0.82, in hundredths
CONCAVITY_FIXED == 82

VARIABLES points, call, result

\* the state of the distance tracker (App): the last GNSS fix, whether a track
\* is being recorded, the rater's path, the pivots and the pivot menu
VARIABLES pos, trkActive, trkPoints, currentPivots, showPivotMenu, pendingPivotType

\* the rest of the state of App: the view shown, the record being viewed, the
\* saved records, the hole, and the green mapper (whether a green is being
\* walked, whether one was closed, the perimeter walked)
VARIABLES view, viewingRecord, history, holeNum, mapActive, mapCompleted, mapPoints

trackerVars == <<pos, trkActive, trkPoints, currentPivots, showPivotMenu, pendingPivotType>>
appVars == <<view, viewingRecord, history, holeNum, mapActive, mapCompleted, mapPoints>>
vars == <<points, call, result, pos, trkActive, trkPoints, currentPivots, showPivotMenu, pendingPivotType, view, viewingRecord, history, holeNum, mapActive, mapCompleted, mapPoints>>

\* pendingPivotType when no type is chosen (null)
NoType == "null"

\* the useState initial values
TrackerInit ==
  /\ pos = Null
  /\ trkActive = FALSE
  /\ trkPoints = <<>>
  /\ currentPivots = <<>>
  /\ showPivotMenu = FALSE
  /\ pendingPivotType = NoType

AppInit ==
  /\ view = "landing"
  /\ viewingRecord = Null
  /\ history = <<>>
  /\ holeNum = 1
  /\ mapActive = FALSE
  /\ mapCompleted = FALSE
  /\ mapPoints = <<>>

\* the perimeters handed to the engine: every sequence of up to MaxShort recorded
\* points, and every sequence of up to MaxLen points that visits no point twice
Range(s) == { s[k] : k \in DOMAIN s }

RECURSIVE SeqsOfLen(_)
SeqsOfLen(n) ==
  IF n = 0 THEN {<<>>}
  ELSE { Append(s, p) : s \in SeqsOfLen(n - 1), p \in Grid }

RECURSIVE WalksOfLen(_)
WalksOfLen(n) ==
  IF n = 0 THEN {<<>>}
  ELSE UNION { { Append(s, p) : p \in Grid \ Range(s) } : s \in WalksOfLen(n - 1) }

Perimeters ==
  UNION { SeqsOfLen(n) : n \in 0..MaxShort } \cup UNION { WalksOfLen(n) : n \in 0..MaxLen }

Idle == call.fn = "none"

Init ==
  /\ points \in Perimeters
  /\ call = [fn |-> "none"]
  /\ result = Null
  /\ TrackerInit
  /\ AppInit

CallGetEGDAnalysis ==
  \E forceSimpleAverage \in BOOLEAN :
    /\ Idle
    /\ call' = [fn |-> "getEGDAnalysis", forceSimpleAverage |-> forceSimpleAverage]
    /\ result' = getEGDAnalysis(points, forceSimpleAverage)
    /\ UNCHANGED points
    /\ UNCHANGED trackerVars
    /\ UNCHANGED appVars

\* the hull is taken of the array itself, once basic is not null
CallAnalyzeGreenShape ==
  /\ Idle
  /\ call' = [fn |-> "analyzeGreenShape"]
  /\ result' = analyzeGreenShape(points, CONCAVITY_FIXED)
  /\ points' = IF result' = Null THEN points ELSE InputAfterHull(points)
  /\ UNCHANGED trackerVars
  /\ UNCHANGED appVars

CallCalculateArea ==
  /\ Idle
  /\ call' = [fn |-> "calculateArea"]
  /\ result' = [area |-> calculateArea(points)]
  /\ UNCHANGED points
  /\ UNCHANGED trackerVars
  /\ UNCHANGED appVars

\* the caller takes the result; the engine keeps no state between calls
Return ==
  /\ ~Idle
  /\ call' = [fn |-> "none"]
  /\ result' = Null
  /\ UNCHANGED points
  /\ UNCHANGED trackerVars
  /\ UNCHANGED appVars

CallGetConvexHull ==
  /\ Idle
  /\ call' = [fn |-> "getConvexHull"]
  /\ result' = [hull |-> getConvexHull(points)]
  /\ points' = InputAfterHull(points)
  /\ UNCHANGED trackerVars
  /\ UNCHANGED appVars

\* the anomalous analysis on its own, along an axis from a point of the
\* perimeter to a recorded position
CallPerformAnomalousAnalysis ==
  \E i \in 1..Len(points), pB \in Grid :
    /\ Idle
    /\ Len(points) >= 3
    /\ call' = [fn |-> "performAnomalousAnalysis", pA |-> points[i], pB |-> pB]
    /\ result' = performAnomalousAnalysis(points, points[i], pB)
    /\ UNCHANGED points
    /\ UNCHANGED trackerVars
    /\ UNCHANGED appVars

\* the Width Sampler on its own: the perimeter, an axis between two recorded
\* positions (not necessarily a diameter) and a quarter mark on it
CallGetWidthAtAxisPoint ==
  \E pA \in Grid, pB \in Grid, k \in 1..3 :
    /\ Idle
    /\ Len(points) >= 3
    /\ pA # pB
    /\ call' = [fn |-> "getWidthAtAxisPoint", pA |-> pA, pB |-> pB, k |-> k]
    /\ result' = WidthAtMark(points, pA, pB, k)
    /\ UNCHANGED points
    /\ UNCHANGED trackerVars
    /\ UNCHANGED appVars

Next == CallGetEGDAnalysis \/ CallAnalyzeGreenShape \/ CallCalculateArea \/ Return

Spec == Init /\ [][Next]_vars

\* the engine while a recording has only its first MaxFew points
InitFew ==
  /\ points \in UNION { SeqsOfLen(n) : n \in 0..MaxFew }
  /\ call = [fn |-> "none"]
  /\ result = Null
  /\ TrackerInit
  /\ AppInit

SpecFew == InitFew /\ [][Next]_vars

\* the engine restricted to one entry point
NextEGD == CallGetEGDAnalysis \/ Return
SpecEGD == Init /\ [][NextEGD]_vars

NextShape == CallAnalyzeGreenShape \/ Return
SpecShape == Init /\ [][NextShape]_vars

NextArea == CallCalculateArea \/ Return
SpecArea == Init /\ [][NextArea]_vars

NextHull == CallGetConvexHull \/ Return
SpecHull == Init /\ [][NextHull]_vars

\* the five analysis functions, each called on its own, on the first points
\* of a recording
NextCalls ==
  \/ CallGetEGDAnalysis
  \/ CallAnalyzeGreenShape
  \/ CallPerformAnomalousAnalysis
  \/ CallCalculateArea
  \/ CallGetConvexHull
  \/ Return
SpecCalls == InitFew /\ [][NextCalls]_vars

\* the Width Sampler applied to the perimeters of three points
InitWidth ==
  /\ points \in SeqsOfLen(3)
  /\ call = [fn |-> "none"]
  /\ result = Null
  /\ TrackerInit
  /\ AppInit

NextWidth == CallGetWidthAtAxisPoint \/ Return
SpecWidth == InitWidth /\ [][NextWidth]_vars

\* ---- the distance tracker ----
PivotTypes == {"common", "scratch_cut", "bogey_round"}

\* the positions of the fixes, 16 m apart
FixPositions == {GeoPoint(0, 0), GeoPoint(0, Step)}

\* the multipliers of the two unit systems, in 1/100000: Yards and Metres
DistMults == {109361, 100000}

\* Date.now() at a fix: later than the timestamp of the last
NextTime(p) == IF p = Null THEN Ms ELSE p.timestamp + Ms

\* saveRecord: the new record goes to the head of the history
saveRecord(record) == history' = <<record>> \o history

\* handleFinalizeGreen refusing fewer than 2 points only
handleFinalizeGreen_Guard2(perimeter) ==
  IF Len(perimeter) < 2
  THEN UNCHANGED <<history, mapActive, mapCompleted>>
  ELSE /\ saveRecord(GreenRecord(perimeter, holeNum))
       /\ mapActive' = FALSE
       /\ mapCompleted' = TRUE

\* handleFinalizeGreen on the perimeter it sees as mapPoints: nothing with
\* fewer than 3 points, else the Green record is saved and the mapping closed
handleFinalizeGreen(perimeter) ==
  IF Len(perimeter) < 3
  THEN UNCHANGED <<history, mapActive, mapCompleted>>
  ELSE /\ saveRecord(GreenRecord(perimeter, holeNum))
       /\ mapActive' = FALSE
       /\ mapCompleted' = TRUE

\* the perimeter after a fix at p: p is added unless it is within 0.4 m of
\* the last point (the time of the fix is not kept in the perimeter)
Walked(perimeter, p) ==
  IF Len(perimeter) = 0 \/ calculateDistance(perimeter[Len(perimeter)], p) >= 4
  THEN Append(perimeter, GeoPoint(p.lat, p.lng))
  ELSE perimeter

\* automatic closing: more than 20 points and p within 0.9 m of the first
AutoClose(perimeter, p) ==
  Len(perimeter) > 20 /\ calculateDistance(p, perimeter[1]) < 9

\* the effect on [pos, mapActive, mapPoints.length] after a fix at p: the
\* point is added; the closing test sees the perimeter of the render before
\* the point was added, and, the length having changed, runs once more on the
\* new perimeter
MappingEffect(p) ==
  IF ~mapActive
  THEN UNCHANGED <<mapPoints, history, mapActive, mapCompleted>>
  ELSE /\ mapPoints' = Walked(mapPoints, p)
       /\ IF AutoClose(mapPoints, p)
          THEN handleFinalizeGreen(mapPoints)
          ELSE IF Len(Walked(mapPoints, p)) # Len(mapPoints) /\ AutoClose(Walked(mapPoints, p), p)
          THEN handleFinalizeGreen(Walked(mapPoints, p))
          ELSE UNCHANGED <<history, mapActive, mapCompleted>>

\* watchPosition: a fix replaces pos; its timestamp (Date.now()) is later than
\* the last; while a green is walked the mapping effect runs
Fix ==
  \E g \in FixPositions :
    /\ NextTime(pos) <= Ms * (IF mapActive THEN MaxMapFix ELSE MaxFix)
    /\ pos' = TrackPoint(g.lat, g.lng, NextTime(pos))
    /\ MappingEffect(TrackPoint(g.lat, g.lng, NextTime(pos)))
    /\ UNCHANGED <<trkActive, trkPoints, currentPivots, showPivotMenu, pendingPivotType>>
    /\ UNCHANGED <<points, call, result>>
    /\ UNCHANGED <<view, viewingRecord, holeNum>>

\* the controls of the tracker are shown in the track view while no record is
\* viewed
TrackControls == view = "track" /\ viewingRecord = Null

\* START TRACK: the button while no track is recorded
StartTrack ==
  /\ TrackControls
  /\ ~trkActive
  /\ Len(history) < MaxHistory
  /\ trkActive' = TRUE
  /\ trkPoints' = IF pos # Null THEN <<pos>> ELSE <<>>
  /\ currentPivots' = <<>>
  /\ showPivotMenu' = FALSE
  /\ pendingPivotType' = NoType
  /\ UNCHANGED pos
  /\ UNCHANGED <<points, call, result>>
  /\ UNCHANGED appVars

\* STOP TRACK: the final position is locked into the path, the effective
\* paths are computed and the Track record is saved
StopTrack ==
  \E distMult \in DistMults :
    /\ TrackControls
    /\ trkActive
    /\ trkPoints' = IF pos # Null THEN Append(trkPoints, pos) ELSE trkPoints
    /\ saveRecord(TrackRecord(trkPoints', currentPivots,
                              calculateEffectivePathsAndMetrics(trkPoints', currentPivots, distMult),
                              holeNum))
    /\ trkActive' = FALSE
    /\ showPivotMenu' = FALSE
    /\ pendingPivotType' = NoType
    /\ UNCHANGED <<pos, currentPivots>>
    /\ UNCHANGED <<points, call, result>>
    /\ UNCHANGED <<view, viewingRecord, holeNum, mapActive, mapCompleted, mapPoints>>

\* disabled={currentPivots.length > 3}: the Pivot button one pivot too late
PivotDisabled_Over3(pivots) == Len(pivots) > 3

\* disabled={currentPivots.length >= 3} on the Pivot button
PivotDisabled(pivots) == Len(pivots) >= 3

\* the Pivot button, shown while a track is recorded
OpenPivotMenu ==
  /\ TrackControls
  /\ trkActive
  /\ ~PivotDisabled(currentPivots)
  /\ showPivotMenu' = TRUE
  /\ UNCHANGED <<pos, trkActive, trkPoints, currentPivots, pendingPivotType>>
  /\ UNCHANGED <<points, call, result>>
  /\ UNCHANGED appVars

\* the buttons Both, Scratch and Bogey of the menu
SelectPivotType ==
  \E type \in PivotTypes :
    /\ showPivotMenu
    /\ pendingPivotType' = type
    /\ UNCHANGED <<pos, trkActive, trkPoints, currentPivots, showPivotMenu>>
    /\ UNCHANGED <<points, call, result>>
    /\ UNCHANGED appVars

\* Confirm Pivot (disabled without a type): handleConfirmPivot
handleConfirmPivot ==
  /\ showPivotMenu
  /\ pendingPivotType # NoType
  /\ IF pos # Null
     THEN /\ currentPivots' = Append(currentPivots, [point |-> pos, type |-> pendingPivotType])
          /\ trkPoints' = Append(trkPoints, pos)
          /\ pendingPivotType' = NoType
          /\ showPivotMenu' = FALSE
     ELSE UNCHANGED <<currentPivots, trkPoints, pendingPivotType, showPivotMenu>>
  /\ UNCHANGED <<pos, trkActive>>
  /\ UNCHANGED <<points, call, result>>
  /\ UNCHANGED appVars

\* Cancel: handleCancelPivot
handleCancelPivot ==
  /\ showPivotMenu
  /\ pendingPivotType' = NoType
  /\ showPivotMenu' = FALSE
  /\ UNCHANGED <<pos, trkActive, trkPoints, currentPivots>>
  /\ UNCHANGED <<points, call, result>>
  /\ UNCHANGED appVars

\* the undo button, shown while a track is recorded with a pivot: the last
\* pivot is removed, and the last point of the path if it is that pivot's
UndoPivot ==
  /\ TrackControls
  /\ trkActive
  /\ Len(currentPivots) > 0
  /\ currentPivots' = SubSeq(currentPivots, 1, Len(currentPivots) - 1)
  /\ trkPoints' = IF Len(trkPoints) > 0
                     /\ trkPoints[Len(trkPoints)].timestamp
                          = currentPivots[Len(currentPivots)].point.timestamp
                  THEN SubSeq(trkPoints, 1, Len(trkPoints) - 1)
                  ELSE trkPoints
  /\ UNCHANGED <<pos, trkActive, showPivotMenu, pendingPivotType>>
  /\ UNCHANGED <<points, call, result>>
  /\ UNCHANGED appVars

\* the Track button of the landing page
TrackEntry ==
  /\ view = "landing"
  /\ viewingRecord' = Null
  /\ trkPoints' = <<>>
  /\ currentPivots' = <<>>
  /\ view' = "track"
  /\ showPivotMenu' = FALSE
  /\ UNCHANGED <<pos, trkActive, pendingPivotType>>
  /\ UNCHANGED <<points, call, result>>
  /\ UNCHANGED <<history, holeNum, mapActive, mapCompleted, mapPoints>>

\* the Home button of the track and green views
Home ==
  /\ view \in {"track", "green"}
  /\ view' = "landing"
  /\ trkActive' = FALSE
  /\ mapActive' = FALSE
  /\ viewingRecord' = Null
  /\ showPivotMenu' = FALSE
  /\ UNCHANGED <<pos, trkPoints, currentPivots, pendingPivotType>>
  /\ UNCHANGED <<points, call, result>>
  /\ UNCHANGED <<history, holeNum, mapCompleted, mapPoints>>

NextTracker ==
  \/ Fix
  \/ TrackEntry
  \/ Home
  \/ StartTrack
  \/ StopTrack
  \/ OpenPivotMenu
  \/ SelectPivotType
  \/ handleConfirmPivot
  \/ handleCancelPivot
  \/ UndoPivot

\* the tracker, no green being analysed
InitTracker ==
  /\ points = <<>>
  /\ call = [fn |-> "none"]
  /\ result = Null
  /\ TrackerInit
  /\ AppInit

SpecTracker == InitTracker /\ [][NextTracker]_vars

\* ---- the green mapper, the history and the hole ----
\* the Green Mapper button of the landing page
GreenMapperEntry ==
  /\ view = "landing"
  /\ viewingRecord' = Null
  /\ mapPoints' = <<>>
  /\ mapCompleted' = FALSE
  /\ view' = "green"
  /\ UNCHANGED <<history, holeNum, mapActive>>
  /\ UNCHANGED trackerVars
  /\ UNCHANGED <<points, call, result>>

\* the controls of the mapper are shown in the green view while no record is
\* viewed
GreenControls == view = "green" /\ viewingRecord = Null

\* START GREEN without clearing mapCompleted
StartGreen_KeepCompleted ==
  /\ GreenControls
  /\ ~mapActive
  /\ Len(history) < MaxGreens
  /\ mapPoints' = IF pos # Null THEN <<GeoPoint(pos.lat, pos.lng)>> ELSE <<>>
  /\ mapActive' = TRUE
  /\ UNCHANGED <<view, viewingRecord, history, holeNum, mapCompleted>>
  /\ UNCHANGED trackerVars
  /\ UNCHANGED <<points, call, result>>

\* START GREEN: the button while no green is walked; the effect that follows
\* finds pos at the first point and adds nothing
StartGreen ==
  /\ GreenControls
  /\ ~mapActive
  /\ Len(history) < MaxGreens
  /\ mapPoints' = IF pos # Null THEN <<GeoPoint(pos.lat, pos.lng)>> ELSE <<>>
  /\ mapActive' = TRUE
  /\ mapCompleted' = FALSE
  /\ UNCHANGED <<view, viewingRecord, history, holeNum>>
  /\ UNCHANGED trackerVars
  /\ UNCHANGED <<points, call, result>>

\* CLOSE: the same button while a green is walked
CloseGreen ==
  /\ GreenControls
  /\ mapActive
  /\ handleFinalizeGreen(mapPoints)
  /\ UNCHANGED <<view, viewingRecord, holeNum, mapPoints>>
  /\ UNCHANGED trackerVars
  /\ UNCHANGED <<points, call, result>>

\* a record of the history list of the landing page is opened
handleOpenRecord ==
  \E i \in 1..Len(history) :
    /\ view = "landing"
    /\ viewingRecord' = history[i]
    /\ holeNum' = IF history[i].holeNumber # NoHole THEN history[i].holeNumber ELSE holeNum
    /\ IF history[i].type = "Track"
       THEN /\ view' = "track"
            /\ trkActive' = FALSE
            /\ trkPoints' = <<>>
            /\ currentPivots' = <<>>
            /\ UNCHANGED <<mapActive, mapCompleted>>
       ELSE /\ view' = "green"
            /\ mapActive' = FALSE
            /\ mapCompleted' = TRUE
            /\ UNCHANGED <<trkActive, trkPoints, currentPivots>>
    /\ UNCHANGED <<pos, showPivotMenu, pendingPivotType>>
    /\ UNCHANGED <<history, mapPoints>>
    /\ UNCHANGED <<points, call, result>>

\* Close Viewer, shown in place of the controls while a record is viewed
CloseViewer ==
  /\ view \in {"track", "green"}
  /\ viewingRecord # Null
  /\ viewingRecord' = Null
  /\ view' = "landing"
  /\ UNCHANGED <<history, holeNum, mapActive, mapCompleted, mapPoints>>
  /\ UNCHANGED trackerVars
  /\ UNCHANGED <<points, call, result>>

\* the delete button of a record of the history list
DeleteRecord ==
  \E i \in 1..Len(history) :
    /\ view = "landing"
    /\ history' = SubSeq(history, 1, i - 1) \o SubSeq(history, i + 1, Len(history))
    /\ UNCHANGED <<view, viewingRecord, holeNum, mapActive, mapCompleted, mapPoints>>
    /\ UNCHANGED trackerVars
    /\ UNCHANGED <<points, call, result>>

\* the hole selector is shown with the controls while nothing is recorded
HoleSelector ==
  \/ TrackControls /\ ~trkActive
  \/ GreenControls /\ ~mapActive

\* the minus button: setHoleNum(h => Math.max(1, h - 1))
DecrementHole ==
  /\ HoleSelector
  /\ holeNum' = Max2(1, holeNum - 1)
  /\ UNCHANGED <<view, viewingRecord, history, mapActive, mapCompleted, mapPoints>>
  /\ UNCHANGED trackerVars
  /\ UNCHANGED <<points, call, result>>

\* the plus button: setHoleNum(h => Math.min(18, h + 1))
IncrementHole ==
  /\ HoleSelector
  /\ holeNum' = Min2(18, holeNum + 1)
  /\ UNCHANGED <<view, viewingRecord, history, mapActive, mapCompleted, mapPoints>>
  /\ UNCHANGED trackerVars
  /\ UNCHANGED <<points, call, result>>

\* the coordinates of a placemark: 2 to MaxKml positions
KmlCoordinates == UNION { [1..n -> FixPositions] : n \in 2..MaxKml }

\* Date.now() at each coordinate parsed: the clock may pass a millisecond
\* between two of them
KmlStamps(n) == { stamps \in [1..n -> {Ms, 2 * Ms}] : \A k \in 1..(n - 1) : stamps[k] <= stamps[k + 1] }

\* the hole numbers written in the placemarks: parseInt of the digits after
\* "Hole:" or "Hole ", 0 when there are none
KmlHoles == {0, 18, 19}

\* the record of a placemark taken as a green: a Polygon, or more than 5 points
KmlGreen(coords, extractedHole) ==
  GreenRecord(coords, IF extractedHole > 0 THEN extractedHole ELSE NoHole)

\* the record of a placemark taken as a track: the effective paths are
\* computed without pivots, and the record has no pivotPoints
KmlTrackRecord(raterPath, metrics, holeNumber) ==
  [type |-> "Track", points |-> raterPath, raterPathPoints |-> raterPath,
   effectivePaths |-> metrics.effectivePaths,
   effectiveDistances |-> metrics.effectiveDistances, holeNumber |-> holeNumber]

KmlTrack(raterPath, extractedHole, distMult) ==
  KmlTrackRecord(raterPath, calculateEffectivePathsAndMetrics(raterPath, <<>>, distMult),
                 IF extractedHole > 0 THEN extractedHole ELSE NoHole)

\* importKML of a file of one placemark
importKML ==
  \E coords \in KmlCoordinates, isPolygon \in BOOLEAN, extractedHole \in KmlHoles, distMult \in DistMults :
    \E stamps \in KmlStamps(Len(coords)) :
      /\ view = "landing"
      /\ Len(history) < MaxHistory
      /\ history' = << IF isPolygon \/ Len(coords) > 5
                       THEN KmlGreen(coords, extractedHole)
                       ELSE KmlTrack([k \in 1..Len(coords) |->
                                        TrackPoint(coords[k].lat, coords[k].lng, stamps[k])],
                                     extractedHole, distMult) >> \o history
      /\ UNCHANGED <<view, viewingRecord, holeNum, mapActive, mapCompleted, mapPoints>>
      /\ UNCHANGED trackerVars
      /\ UNCHANGED <<points, call, result>>

\* the green mapper
InitApp ==
  /\ points = <<>>
  /\ call = [fn |-> "none"]
  /\ result = Null
  /\ TrackerInit
  /\ AppInit

NextMapper ==
  \/ Fix
  \/ GreenMapperEntry
  \/ StartGreen
  \/ CloseGreen
  \/ Home
  \/ handleOpenRecord
  \/ CloseViewer
  \/ DeleteRecord

SpecMapper == InitApp /\ [][NextMapper]_vars

\* the history: imported and opened records, and the hole selector
NextHistory ==
  \/ importKML
  \/ handleOpenRecord
  \/ CloseViewer
  \/ DeleteRecord
  \/ TrackEntry
  \/ GreenMapperEntry
  \/ Home
  \/ DecrementHole
  \/ IncrementHole

SpecHistory == InitApp /\ [][NextHistory]_vars

\* ======================= properties =======================

\* the width (yards) the Width Sampler finds at k/4 of the diameter axis of a
\* perimeter with a non-degenerate axis, or Null when it does not resolve
AxisWidthAt(pts, k) ==
  LET diam   == Diameter(pts)
      latRef == diam.pA.lat
      xA     == toX(diam.pA, latRef)
      yA     == toY(diam.pA)
      dx     == toX(diam.pB, latRef) - xA
      dy     == toY(diam.pB) - yA
      w      == getWidthAtAxisPoint(4 * xA + k * dx, 4 * yA + k * dy, 4, dx, dy,
                                    Sqrt(dx * dx + dy * dy),
                                    Project(Append(pts, pts[1]), latRef))
  IN  IF w = Null THEN Null ELSE [yds |-> Yards(w.maxT - w.minT)]

\* both quarter widths resolve and differ by more than 25% of the larger
QuartersDiverge(pts) ==
  LET w1 == AxisWidthAt(pts, 1)
      w3 == AxisWidthAt(pts, 3)
  IN  /\ w1 # Null
      /\ w3 # Null
      /\ Max2(w1.yds, w3.yds) > 0
      /\ 100 * Abs(w1.yds - w3.yds) > 25 * Max2(w1.yds, w3.yds)

EGDReturned(force) ==
  /\ call.fn = "getEGDAnalysis"
  /\ call.forceSimpleAverage = force
  /\ result # Null

\* C1: without forceSimpleAverage, diverging quarter widths give the
\* inconsistent result, EGD = (L + (w1+w3)/2)/2 (rounded to a tenth of a yard)
\* and its label, whatever the ratio; otherwise the ratio L/W (0 when W = 0)
\* selects (3W+L)/4 from 3 up, (2W+L)/3 from 2 up and (L+W)/2 below, each
\* with its label.
C1_MethodSelection ==
  EGDReturned(FALSE) =>
    LET L == result.L
        W == result.W
    IN  IF QuartersDiverge(points)
        THEN /\ result.isInconsistent
             /\ result.method = "One dimension not consistent"
             /\ result.egd = RoundTenth(2 * L + AxisWidthAt(points, 1).yds
                                               + AxisWidthAt(points, 3).yds, 4)
        ELSE /\ ~result.isInconsistent
             /\ (W > 0 /\ L >= 3 * W) =>
                   /\ result.egd = RoundTenth(3 * W + L, 4)
                   /\ result.method = "One dimension three times the other"
             /\ (W > 0 /\ L >= 2 * W /\ L < 3 * W) =>
                   /\ result.egd = RoundTenth(2 * W + L, 3)
                   /\ result.method = "One dimension twice the other"
             /\ (W = 0 \/ L < 2 * W) =>
                   /\ result.egd = RoundTenth(L + W, 2)
                   /\ result.method = "Average (L+W)/2"

\* C1 witness: the inconsistency branch taken where the ratio is 3 or more
C1_Witness ==
  /\ EGDReturned(FALSE)
  /\ result.isInconsistent
  /\ result.W > 0
  /\ result.L >= 3 * result.W

\* C2: on a perimeter of fewer than 3 points (the empty one included)
\* getEGDAnalysis and analyzeGreenShape return null and calculateArea returns 0.
C2_FewPoints ==
  (Len(points) < 3 /\ ~Idle) =>
    IF call.fn = "calculateArea" THEN result = [area |-> 0] ELSE result = Null

\* C2 witness: getEGDAnalysis has returned null on a perimeter of two distinct points
C2_Witness ==
  /\ call.fn = "getEGDAnalysis"
  /\ Len(points) = 2
  /\ points[1] # points[2]
  /\ result = Null

ShapeReturned == call.fn = "analyzeGreenShape" /\ result # Null

\* is the midpoint of a's diameter pA-pB outside the polygon pts, by even-odd
\* ray casting in the projection of pts?
DiameterMidpointOutside(a, pts) ==
  LET lat0 == pts[1].lat
  IN  ~isPointInPolygon(toX(a.pA, lat0) + toX(a.pB, lat0), toY(a.pA) + toY(a.pB),
                        Project(pts, lat0))

\* polygonArea(pts) / polygonArea(convexHull(pts)) < hundredths/100
ConcavityBelow(pts, hundredths) ==
  LET hullArea == calculateArea(getConvexHull(pts))
  IN  hullArea > 0 /\ 100 * calculateArea(pts) < hundredths * hullArea

\* length/width > 3.6, the ratio being 0 when the width is 0
RatioAbove36(a) == a.W > 0 /\ 10 * a.L > 36 * a.W

\* C3: whenever analyzeGreenShape returns a result, isLShape is true exactly
\* when the midpoint of the whole-shape diameter is outside the polygon, or the
\* polygon's area is less than 0.82 of its hull's, or length/width exceeds 3.6.
C3_LShapeCriterion ==
  ShapeReturned =>
    (result.isLShape <=> \/ DiameterMidpointOutside(result, points)
                         \/ ConcavityBelow(points, CONCAVITY_FIXED)
                         \/ RatioAbove36(result))

\* C3 witness: an L-shape by its ratio alone
C3_Witness ==
  /\ ShapeReturned
  /\ result.isLShape
  /\ RatioAbove36(result)
  /\ ~DiameterMidpointOutside(result, points)
  /\ ~ConcavityBelow(points, CONCAVITY_FIXED)

\* C4: every L-shaped result of analyzeGreenShape carries two portions s1 and
\* s2, both of them results (neither is null).
C4_BothPortions ==
  (ShapeReturned /\ result.isLShape) => (result.s1 # Null /\ result.s2 # Null)

\* the four corners of a rectangle with sides along the meridians and the
\* parallels, in perimeter order (either winding, any corner first)
IsRectangle(pts) ==
  /\ Len(pts) = 4
  /\ pts[1].lat # pts[3].lat
  /\ pts[1].lng # pts[3].lng
  /\ \/ pts[2] = GeoPoint(pts[1].lat, pts[3].lng) /\ pts[4] = GeoPoint(pts[3].lat, pts[1].lng)
     \/ pts[2] = GeoPoint(pts[3].lat, pts[1].lng) /\ pts[4] = GeoPoint(pts[1].lat, pts[3].lng)

\* the sides of a rectangle, longer and shorter (decimetres)
LongSide(pts) ==
  Max2(calculateDistance(pts[1], pts[2]), calculateDistance(pts[2], pts[3]))
ShortSide(pts) ==
  Min2(calculateDistance(pts[1], pts[2]), calculateDistance(pts[2], pts[3]))

OppositeCorners(a, pts) ==
  {a.pA, a.pB} \in { {pts[1], pts[3]}, {pts[2], pts[4]} }

\* the bracket formula and its label, applied to a length L and a width W
BracketOn(a, L, W) ==
  /\ (W > 0 /\ L >= 3 * W) =>
        /\ a.egd = RoundTenth(3 * W + L, 4)
        /\ a.method = "One dimension three times the other"
  /\ (W > 0 /\ L >= 2 * W /\ L < 3 * W) =>
        /\ a.egd = RoundTenth(2 * W + L, 3)
        /\ a.method = "One dimension twice the other"
  /\ (W = 0 \/ L < 2 * W) =>
        /\ a.egd = RoundTenth(L + W, 2)
        /\ a.method = "Average (L+W)/2"

C6_ForcedAverage ==
  EGDReturned(TRUE) =>
    /\ result.egd = RoundTenth(result.L + result.W, 2)
    /\ result.method = "Average (L+W)/2"
    /\ ~result.isInconsistent

\* C6 witness: forced, on a perimeter whose quarter widths diverge and whose
\* ratio is 3 or more
C6_Witness ==
  /\ EGDReturned(TRUE)
  /\ QuartersDiverge(points)
  /\ result.W > 0
  /\ result.L >= 3 * result.W

\* C7: for an L-shaped result, hasAnomaly is true exactly when the diameter
\* midpoint of s1 or of s2 lies outside the full polygon; and then the
\* anomalous analysis attached is the one of the full perimeter along the
\* whole-shape diameter pA-pB (none is attached otherwise).
C7_Anomaly ==
  (ShapeReturned /\ result.isLShape) =>
    /\ result.hasAnomaly <=>
          \/ result.s1 # Null /\ DiameterMidpointOutside(result.s1, points)
          \/ result.s2 # Null /\ DiameterMidpointOutside(result.s2, points)
    /\ result.anomalousResult =
          IF result.hasAnomaly
          THEN performAnomalousAnalysis(points, result.pA, result.pB)
          ELSE Null

\* C7 witness: an anomaly found in the second portion only, whose own diameter
\* would have given another analysis
C7_Witness ==
  /\ ShapeReturned
  /\ result.isLShape
  /\ result.hasAnomaly
  /\ result.s1 # Null
  /\ ~DiameterMidpointOutside(result.s1, points)
  /\ result.s2 # Null
  /\ performAnomalousAnalysis(points, result.s2.pA, result.s2.pB) # result.anomalousResult

\* C8: the method of an L-shaped result is 'Anomalous Green Detected' when an
\* anomalousResult is attached and 'Two portions' otherwise.
C8_ReportedMethod ==
  (ShapeReturned /\ result.isLShape) =>
    result.method = IF result.anomalousResult # Null
                    THEN "Anomalous Green Detected"
                    ELSE "Two portions"

\* C8 witness: an L-shape with an anomalous result attached
C8_Witness ==
  /\ ShapeReturned
  /\ result.isLShape
  /\ result.anomalousResult # Null
  /\ result.method = "Anomalous Green Detected"

\* C9: pA and pB are two points of the perimeter, no two points of the
\* perimeter are farther apart than they are, and the length reported is their
\* distance; on the four corners of a square they are opposite corners.
C9_Diameter ==
  (call.fn = "getEGDAnalysis" /\ result # Null) =>
    /\ \E i, j \in 1..Len(points) :
          i < j /\ result.pA = points[i] /\ result.pB = points[j]
    /\ \A i, j \in 1..Len(points) :
          calculateDistance(points[i], points[j])
            <= calculateDistance(result.pA, result.pB)
    /\ result.L = Yards(calculateDistance(result.pA, result.pB))
    /\ (IsRectangle(points)
        /\ Abs(points[1].lat - points[3].lat) = Abs(points[1].lng - points[3].lng))
         => OppositeCorners(result, points)

\* C9 witness: five points of which no two neighbours are the farthest pair
C9_Witness ==
  /\ call.fn = "getEGDAnalysis"
  /\ result # Null
  /\ Len(points) = 5
  /\ \A i \in 1..5 :
        calculateDistance(points[i], points[(i % 5) + 1])
          < calculateDistance(result.pA, result.pB)

Reverse(s) == [k \in 1..Len(s) |-> s[Len(s) + 1 - k]]
Rotate(s, r) == [k \in 1..Len(s) |-> s[((k - 1 + r) % Len(s)) + 1]]

\* a sequence, its reversal, and the cyclic rotations of both
Reorderings(s) ==
  {s, Reverse(s)} \cup { Rotate(s, r) : r \in 1..Len(s) }
                  \cup { Rotate(Reverse(s), r) : r \in 1..Len(s) }

AreaReturned == call.fn = "calculateArea"

\* C10 as the spec states it: calculateArea returns the same value for a
\* sequence, for its reversal and for every cyclic rotation.
C10_OrderInvariant ==
  AreaReturned => \A q \in Reorderings(points) : calculateArea(q) = result.area

\* C10 as the code has it: calculateArea returns the same value for the
\* reversal and the rotations that begin at a point of the same latitude as
\* the sequence's first point (the projection is anchored there).
C10_SameAnchor ==
  AreaReturned =>
    \A q \in Reorderings(points) :
      (Len(q) > 0 /\ q[1].lat = points[1].lat) => calculateArea(q) = result.area

\* C10 witness: a polygon with a reordering that begins at another point of the
\* same latitude, and a rotation that begins at another latitude and gives
\* another area
C10_Witness ==
  /\ AreaReturned
  /\ result.area > 0
  /\ \E q \in Reorderings(points) :
        q[1] # points[1] /\ q[1].lat = points[1].lat /\ q # Reverse(points)
  /\ \E r \in 1..Len(points) : calculateArea(Rotate(points, r)) # result.area

\* a perimeter that walks once round a convex polygon of non-zero area: every
\* side has all the points on one side of it (points on a side are allowed)
IsConvex(pts) ==
  /\ Len(pts) >= 3
  /\ \E i, k \in 1..Len(pts) : cp(pts[i], pts[(i % Len(pts)) + 1], pts[k]) # 0
  /\ \/ \A i, k \in 1..Len(pts) : cp(pts[i], pts[(i % Len(pts)) + 1], pts[k]) >= 0
     \/ \A i, k \in 1..Len(pts) : cp(pts[i], pts[(i % Len(pts)) + 1], pts[k]) <= 0

\* the shoelace area of pts in the projection anchored at latitude lat0
AreaAt(pts, lat0) == Abs(ShoelaceSum(pts, lat0, 1)) \div 2

\* the rounding of the projection at the points the hull leaves out (those on
\* a side), each worth less than one unit of x across the polygon's height
HullRounding(pts, hull) == (Len(pts) - Len(hull)) * MaxLat * Step

AgreesAtHullAnchor(pts, area, hull, hullArea) ==
  /\ Abs(AreaAt(pts, hull[1].lat) - hullArea) <= HullRounding(pts, hull)
  /\ hull[1].lat = pts[1].lat => Abs(area - hullArea) <= HullRounding(pts, hull)
  /\ 100 * area >= CONCAVITY_FIXED * hullArea

WidthReturned == call.fn = "getWidthAtAxisPoint"

\* edge i of the closed polygon runs from pts[i] to the next point, the last
\* edge back to pts[1]
EdgeFrom(pts, i) == pts[i]
EdgeTo(pts, i) == pts[(i % Len(pts)) + 1]

\* four times the projection of p - m on the axis direction, m the query point
\* at k/4 of the axis from pA: zero on the normal line, of opposite signs on
\* its two sides
SideOf(p, pA, pB, k) ==
  LET xA == toX(pA, pA.lat)
      dx == toX(pB, pA.lat) - xA
      dy == toY(pB) - toY(pA)
  IN  (4 * toX(p, pA.lat) - (4 * xA + k * dx)) * dx
        + (4 * toY(p) - (4 * toY(pA) + k * dy)) * dy

\* the normal line crosses edge i: the edge is not parallel to the line (nor
\* of zero length) and its ends are not strictly on the same side of it
Crossed(pts, i, pA, pB, k) ==
  LET s1 == SideOf(EdgeFrom(pts, i), pA, pB, k)
      s2 == SideOf(EdgeTo(pts, i), pA, pB, k)
  IN  s1 # s2 /\ ((s1 <= 0 /\ s2 >= 0) \/ (s1 >= 0 /\ s2 <= 0))

\* the signed offset along the normal at which the line meets the line of edge i
OffsetOf(pts, i, pA, pB, k) ==
  LET xA == toX(pA, pA.lat)
      dx == toX(pB, pA.lat) - xA
      dy == toY(pB) - toY(pA)
      x1 == toX(EdgeFrom(pts, i), pA.lat)
      y1 == toY(EdgeFrom(pts, i))
      sx == toX(EdgeTo(pts, i), pA.lat) - x1
      sy == toY(EdgeTo(pts, i)) - y1
  IN  MulDiv(sx * ((4 * toY(pA) + k * dy) - 4 * y1) - sy * ((4 * xA + k * dx) - 4 * x1),
             Sqrt(dx * dx + dy * dy),
             4 * ((-sx) * dx - sy * dy))

CrossedEdges(pts, pA, pB, k) == { i \in 1..Len(pts) : Crossed(pts, i, pA, pB, k) }

\* C12: over the edges of the closed polygon, the closing edge included,
\* getWidthAtAxisPoint returns null exactly when the normal line crosses fewer
\* than two non-degenerate edges, and otherwise minT and maxT are the smallest
\* and the largest offsets of the crossings, so minT <= maxT.
C12_WidthSampler ==
  WidthReturned =>
    LET E == CrossedEdges(points, call.pA, call.pB, call.k)
    IN  IF Cardinality(E) < 2 THEN result = Null
        ELSE /\ result # Null
             /\ \E i \in E : result.minT = OffsetOf(points, i, call.pA, call.pB, call.k)
             /\ \E i \in E : result.maxT = OffsetOf(points, i, call.pA, call.pB, call.k)
             /\ \A i \in E : /\ result.minT <= OffsetOf(points, i, call.pA, call.pB, call.k)
                             /\ OffsetOf(points, i, call.pA, call.pB, call.k) <= result.maxT
             /\ result.minT <= result.maxT

\* C12 witness: a width bounded by exactly two crossings, one of them on the
\* closing edge, the two offsets apart
C12_Witness ==
  /\ WidthReturned
  /\ result # Null
  /\ result.minT < result.maxT
  /\ Cardinality(CrossedEdges(points, call.pA, call.pB, call.k)) = 2
  /\ Len(points) \in CrossedEdges(points, call.pA, call.pB, call.k)

HullReturned == call.fn = "getConvexHull"

\* p lies on the segment from a to b, a # b
OnSegment(p, a, b) ==
  /\ a # b
  /\ cp(a, b, p) = 0
  /\ Min2(a.lng, b.lng) <= p.lng /\ p.lng <= Max2(a.lng, b.lng)
  /\ Min2(a.lat, b.lat) <= p.lat /\ p.lat <= Max2(a.lat, b.lat)

\* p lies in the triangle a, b, c of non-zero area, its sides included
InTriangle(p, a, b, c) ==
  /\ cp(a, b, c) # 0
  /\ \/ cp(a, b, p) >= 0 /\ cp(b, c, p) >= 0 /\ cp(c, a, p) >= 0
     \/ cp(a, b, p) <= 0 /\ cp(b, c, p) <= 0 /\ cp(c, a, p) <= 0

\* the strictly convex corners of a set of points: the points that are not in
\* the convex hull of the others
Corners(S) ==
  { p \in S : /\ ~ \E a, b \in S \ {p} : OnSegment(p, a, b)
              /\ ~ \E a, b, c \in S \ {p} : InTriangle(p, a, b, c) }

\* h lists each of its points once
NoRepeat(h) == \A i, j \in 1..Len(h) : i # j => h[i] # h[j]

\* every three successive points of the closed sequence h turn strictly to the
\* left (longitude to the east, latitude to the north)
StrictlyCounterClockwise(h) ==
  \A i \in 1..Len(h) :
    cp(h[i], h[(i % Len(h)) + 1], h[((i + 1) % Len(h)) + 1]) > 0

\* every point of S is inside or on the closed polygon h, counter-clockwise
Encloses(h, S) ==
  \A i \in 1..Len(h) : \A p \in S : cp(h[i], h[(i % Len(h)) + 1], p) >= 0

\* C13 as the spec states it: getConvexHull returns fewer than 3 points
\* unchanged; otherwise it returns input points, each at most once, that are
\* exactly the strictly convex corners of the input set, counter-clockwise,
\* every input point being inside or on the returned polygon.
C13_StrictCorners ==
  HullReturned =>
    IF Len(points) < 3 THEN result.hull = points
    ELSE /\ NoRepeat(result.hull)
         /\ Range(result.hull) = Corners(Range(points))
         /\ Len(result.hull) >= 3 => StrictlyCounterClockwise(result.hull)
         /\ Encloses(result.hull, Range(points))

\* C13 as the code has it: the same, except that three or more points that
\* all coincide give that point twice; points that all lie on one line give
\* its two end points, and otherwise the corners are three or more.
C13_CornersOrTwice ==
  HullReturned =>
    IF Len(points) < 3 THEN result.hull = points
    ELSE IF Cardinality(Range(points)) = 1
    THEN result.hull = <<points[1], points[1]>>
    ELSE /\ NoRepeat(result.hull)
         /\ Range(result.hull) = Corners(Range(points))
         /\ Len(result.hull) >= 2
         /\ Len(result.hull) >= 3 => StrictlyCounterClockwise(result.hull)
         /\ Encloses(result.hull, Range(points))
         /\ (Len(result.hull) = 2)
              <=> (\A p \in Range(points) : OnSegment(p, result.hull[1], result.hull[2]))

\* C13 witness: a hull of four corners that leaves out a point on a side
C13_Witness ==
  /\ HullReturned
  /\ Len(points) = 5
  /\ Len(result.hull) = 4
  /\ \E p \in Range(points) \ Range(result.hull) :
        \E i \in 1..4 : OnSegment(p, result.hull[i], result.hull[(i % 4) + 1])

AnomalyReturned == ShapeReturned /\ result.isLShape /\ result.anomalousResult # Null

\* the sample that belongs at mark i/4 of the axis pA-pB: the width there in
\* yards, labelled Wi, in the colour of that mark
SampleAtMark(sample, pts, pA, pB, i) ==
  /\ WidthAtMark(pts, pA, pB, i) # Null
  /\ sample.w = Yards(WidthAtMark(pts, pA, pB, i).maxT - WidthAtMark(pts, pA, pB, i).minT)
  /\ sample.label = <<"W1", "W2", "W3">>[i]
  /\ sample.color = <<"#fb923c", "#facc15", "#f472b6">>[i]

\* C14: every anomalous result carries exactly three width samples, and the
\* sample at place i of the list is the one taken at the i-th of the marks
\* 25%, 50%, 75% of the axis, labelled W1, W2, W3 with their colours.
C14_ThreeSamples ==
  AnomalyReturned =>
    /\ Len(result.anomalousResult.widths) = 3
    /\ \A i \in 1..3 :
          SampleAtMark(result.anomalousResult.widths[i], points, result.pA, result.pB, i)

\* C14 witness: an anomalous result whose three widths differ from one another
C14_Witness ==
  /\ AnomalyReturned
  /\ Len(result.anomalousResult.widths) = 3
  /\ result.anomalousResult.widths[1].w # result.anomalousResult.widths[2].w
  /\ result.anomalousResult.widths[2].w # result.anomalousResult.widths[3].w
  /\ result.anomalousResult.widths[1].w # result.anomalousResult.widths[3].w

\* C15: in every anomalous result isManualReq is true exactly when
\* curvedLength > straightLength * 1.15, curvedLength being the length along
\* the spine: false for a spine within 15% of the straight length, true for
\* one bent beyond it.
C15_ManualReq ==
  AnomalyReturned =>
    /\ result.anomalousResult.curvedLength = Yards(PathLength(result.anomalousResult.spine, 1))
    /\ result.anomalousResult.isManualReq
         <=> (100 * result.anomalousResult.curvedLength
                > 115 * result.anomalousResult.straightLength)

\* C15 witness: a spine bent beyond 15% of the straight length, flagged
C15_Witness ==
  /\ AnomalyReturned
  /\ result.anomalousResult.isManualReq
  /\ 100 * result.anomalousResult.curvedLength > 115 * result.anomalousResult.straightLength

\* the function of the call in progress, applied again to the array pts
Again(c, pts) ==
  CASE c.fn = "getEGDAnalysis" -> getEGDAnalysis(pts, c.forceSimpleAverage)
    [] c.fn = "analyzeGreenShape" -> analyzeGreenShape(pts, CONCAVITY_FIXED)
    [] c.fn = "performAnomalousAnalysis" -> performAnomalousAnalysis(pts, c.pA, c.pB)
    [] c.fn = "calculateArea" -> [area |-> calculateArea(pts)]
    [] c.fn = "getConvexHull" -> [hull |-> getConvexHull(pts)]

BasicReturned == EGDReturned(FALSE) \/ ShapeReturned

\* the quotient |w1_yds - w3_yds| / max(w1_yds, w3_yds) is evaluated: both
\* quarter widths resolve
QuartersCompared(pts) == AxisWidthAt(pts, 1) # Null /\ AxisWidthAt(pts, 3) # Null

\* C17: on a perimeter of at least 3 points getEGDAnalysis and
\* analyzeGreenShape evaluate no division by zero: a width of 0 gives the
\* ratio 0, max(w1, w3) is not 0 where the quarter widths are compared, and
\* the axis of the elbow distance has a length.
C17_NoDivisionByZero ==
  BasicReturned =>
    /\ result.W = 0 => result.ratio = [n |-> 0, d |-> 1]
    /\ result.W # 0 => result.ratio = [n |-> result.L, d |-> result.W]
    /\ QuartersCompared(points) => Max2(result.w1_yds, result.w3_yds) # 0
    /\ ShapeReturned =>
          (toX(result.pA, points[1].lat) # toX(result.pB, points[1].lat)
           \/ toY(result.pA) # toY(result.pB))

\* C18: whatever the sequence of Start, Pivot, type, Confirm Pivot, Cancel,
\* undo and Stop, the number of recorded pivots never exceeds 3.
C18_AtMostThreePivots == Len(currentPivots) <= 3

\* C18 witness: three pivots recorded, a fourth refused: the track goes on and
\* the Pivot button is disabled
C18_Witness ==
  /\ trkActive
  /\ Len(currentPivots) = 3
  /\ PivotDisabled(currentPivots)
  /\ ~showPivotMenu

\* the perpendicular distance of p from the axis pA-pB, times the length of
\* the axis, in the projection at latitude latRef
AxisDistance(p, pA, pB, latRef) ==
  Abs((toX(pB, latRef) - toX(pA, latRef)) * (toY(pA) - toY(p))
        - (toX(pA, latRef) - toX(p, latRef)) * (toY(pB) - toY(pA)))

\* the indices of the perimeter points farthest from the axis pA-pB
Farthest(pts, pA, pB) ==
  { e \in 1..Len(pts) :
      \A k \in 1..Len(pts) :
        AxisDistance(pts[k], pA, pB, pts[1].lat) <= AxisDistance(pts[e], pA, pB, pts[1].lat) }

\* C19: for an L-shape the elbow is a perimeter point at the largest
\* perpendicular distance from the whole-shape diameter axis pA-pB, and the
\* two portions analysed are points[0..elbow] and points[elbow..end]: in the
\* order of the perimeter, sharing the elbow, their lengths summing to n+1.
C19_ElbowSplit ==
  (ShapeReturned /\ result.isLShape) =>
    \E e \in Farthest(points, result.pA, result.pB) :
      /\ result.s1 = getEGDAnalysis(SubSeq(points, 1, e), TRUE)
      /\ result.s2 = getEGDAnalysis(SubSeq(points, e, Len(points)), TRUE)
      /\ SubSeq(points, 1, e)[e] = SubSeq(points, e, Len(points))[1]
      /\ Len(SubSeq(points, 1, e)) + Len(SubSeq(points, e, Len(points))) = Len(points) + 1

\* C19 witness: an L-shape with a single farthest point, inside the perimeter
\* sequence, and two portions analysed
C19_Witness ==
  /\ ShapeReturned
  /\ result.isLShape
  /\ Cardinality(Farthest(points, result.pA, result.pB)) = 1
  /\ Farthest(points, result.pA, result.pB) \subseteq 3..(Len(points) - 2)
  /\ result.s1 # Null
  /\ result.s2 # Null
  /\ result.s1 # result.s2

\* C20: on at least 3 points getEGDAnalysis returns null exactly when all the
\* points coincide (an axis of zero length) and performAnomalousAnalysis
\* exactly when pA and pB coincide; otherwise both return a result, also when
\* a Width Sampler call does not resolve.
C20_NullOnDegenerateAxis ==
  /\ (call.fn = "getEGDAnalysis" /\ Len(points) >= 3) =>
        ((result = Null) <=> (Cardinality(Range(points)) = 1))
  /\ (call.fn = "performAnomalousAnalysis" /\ Len(points) >= 3) =>
        ((result = Null) <=> (call.pA = call.pB))

\* C20 witness: performAnomalousAnalysis has returned a result although the
\* Width Sampler resolved neither at every step of the spine nor at every
\* milestone
C20_Witness ==
  /\ call.fn = "performAnomalousAnalysis"
  /\ call.pA # call.pB
  /\ result # Null
  /\ Len(result.spine) < 16
  /\ Len(result.widths) < 3

\* ---- C21 ----
\* a position: an object with a latitude and a longitude
IsGeoPoint(p) == DOMAIN p = {"lat", "lng"}

\* the four end points of the quarter widths of a result
QuarterEnds(r) == {r.pC1, r.pD1, r.pC3, r.pD3}

\* C21: in every non-null result of getEGDAnalysis pA, pB, pC and pD are
\* positions, and pC1, pD1, pC3 and pD3 are all positions when isInconsistent
\* is true and all undefined when it is false.
C21_QuarterEndpoints ==
  (call.fn = "getEGDAnalysis" /\ result # Null) =>
      /\ \A p \in {result.pA, result.pB, result.pC, result.pD} : IsGeoPoint(p)
      /\ result.isInconsistent => \A p \in QuarterEnds(result) : IsGeoPoint(p)
      /\ (~result.isInconsistent) => QuarterEnds(result) = {Undefined}

\* C21 witness: an inconsistent result with its four quarter end points
C21_Witness ==
  /\ call.fn = "getEGDAnalysis"
  /\ result # Null
  /\ result.isInconsistent
  /\ \A p \in QuarterEnds(result) : IsGeoPoint(p)

\* ---- C22 ----
\* the fields analyzeGreenShape adds to a result that is not L-shaped
PlainAnnotation == [isLShape |-> FALSE, hasAnomaly |-> FALSE, s1 |-> Null, s2 |-> Null]

\* r is the result basic with exactly the fields of note added
Annotated(r, basic, note) ==
  /\ DOMAIN r = DOMAIN basic \cup DOMAIN note
  /\ \A f \in DOMAIN basic : r[f] = basic[f]
  /\ \A f \in DOMAIN note : r[f] = note[f]

\* C22: a result of analyzeGreenShape that is not L-shaped is the whole-shape
\* result of getEGDAnalysis, every field unchanged, with isLShape = false,
\* hasAnomaly = false, s1 = null and s2 = null added and no anomalousResult.
C22_PlainResult ==
  (ShapeReturned /\ ~result.isLShape) =>
      /\ Annotated(result, getEGDAnalysis(points, FALSE), PlainAnnotation)
      /\ "anomalousResult" \notin DOMAIN result

\* C22 witness: a plain result whose method is not the default average
C22_Witness ==
  /\ ShapeReturned
  /\ ~result.isLShape
  /\ result.method # "Average (L+W)/2"
  /\ "anomalousResult" \notin DOMAIN result

\* ---- C23 ----
\* the Width Sampler at the sample t = i/15 of the axis pA-pB, projected at
\* the latitude of pA
SpineSample(pts, pA, pB, i) ==
  LET latRef == pA.lat
      xA     == toX(pA, latRef)
      yA     == toY(pA)
      dx     == toX(pB, latRef) - xA
      dy     == toY(pB) - yA
  IN  getWidthAtAxisPoint(15 * xA + i * dx, 15 * yA + i * dy, 15, dx, dy,
                          Sqrt(dx * dx + dy * dy),
                          Project(Append(pts, pts[1]), latRef))

\* the point midway between the crossings at offsets w.minT and w.maxT of the
\* normal through the sample t = i/15
SpineMidpoint(pA, pB, i, w) ==
  LET latRef == pA.lat
      xA     == toX(pA, latRef)
      yA     == toY(pA)
      dx     == toX(pB, latRef) - xA
      dy     == toY(pB) - yA
  IN  AlongNormal(15 * xA + i * dx, 15 * yA + i * dy, 15, dx, dy,
                  Sqrt(dx * dx + dy * dy), (w.minT + w.maxT) \div 2, latRef)

\* the spine is the list, in increasing order of i, of the midpoints at the
\* samples i = 0..15 that resolve
SpineOfSamples(spine, pA, pB, samples) ==
  LET resolved == { i \in DOMAIN samples : samples[i] # Null }
  IN  /\ Len(spine) = Cardinality(resolved)
      /\ \A i \in resolved :
            spine[Cardinality({ r \in resolved : r <= i })] = SpineMidpoint(pA, pB, i, samples[i])

\* C23: the spine of a result of performAnomalousAnalysis has one point for
\* each of the 16 samples t = i/15 at which the Width Sampler resolves and
\* none for the others, in increasing order of t, each the midpoint of the
\* two extreme crossings at its sample; it has at most 16 points.
C23_Spine ==
  (call.fn = "performAnomalousAnalysis" /\ result # Null) =>
      /\ Len(result.spine) <= 16
      /\ SpineOfSamples(result.spine, call.pA, call.pB,
                        [i \in 0..15 |-> SpineSample(points, call.pA, call.pB, i)])

\* C23 witness: on a perimeter of distinct points, a spine from which some
\* samples are omitted and which bends (not all of its points on one latitude
\* or one longitude)
C23_Witness ==
  /\ call.fn = "performAnomalousAnalysis"
  /\ result # Null
  /\ Cardinality(Range(points)) = Len(points)
  /\ Len(result.spine) \in 2..15
  /\ Cardinality({ result.spine[j].lat : j \in 1..Len(result.spine) }) > 1
  /\ Cardinality({ result.spine[j].lng : j \in 1..Len(result.spine) }) > 1

\* ---- C24 ----
\* the indices of the perimeter points farthest from the axis pA-pB in the
\* projection at latitude latRef
FarthestAt(pts, pA, pB, latRef) ==
  { e \in 1..Len(pts) :
      \A k \in 1..Len(pts) :
        AxisDistance(pts[k], pA, pB, latRef) <= AxisDistance(pts[e], pA, pB, latRef) }

\* is the midpoint of a's diameter outside the polygon pts, in the projection
\* at latitude latRef?
MidpointOutsideAt(a, pts, latRef) ==
  ~isPointInPolygon(toX(a.pA, latRef) + toX(a.pB, latRef), toY(a.pA) + toY(a.pB),
                    Project(pts, latRef))

\* the midpoint width of the result r in yards, sampled in the projection at
\* the latitude of r.pA
WidthAtDiameterAnchor(pts, r) ==
  IF WidthAtMark(pts, r.pA, r.pB, 2) = Null THEN 0
  ELSE Yards(WidthAtMark(pts, r.pA, r.pB, 2).maxT - WidthAtMark(pts, r.pA, r.pB, 2).minT)

\* C24: the projections of the EGD, width and anomaly work are anchored at the
\* latitude of the diameter end pA: in a result of analyzeGreenShape the width
\* is the one sampled in that projection, and the midpoint-inside test, the
\* elbow and the anomaly tests are those of that projection.
C24_AnchoredAtDiameter ==
  ShapeReturned =>
    /\ result.W = WidthAtDiameterAnchor(points, result)
    /\ result.isLShape <=>
          \/ MidpointOutsideAt(result, points, result.pA.lat)
          \/ ConcavityBelow(points, CONCAVITY_FIXED)
          \/ RatioAbove36(result)
    /\ result.isLShape =>
          /\ \E e \in FarthestAt(points, result.pA, result.pB, result.pA.lat) :
                /\ result.s1 = getEGDAnalysis(SubSeq(points, 1, e), TRUE)
                /\ result.s2 = getEGDAnalysis(SubSeq(points, e, Len(points)), TRUE)
          /\ result.hasAnomaly <=>
                \/ result.s1 # Null /\ MidpointOutsideAt(result.s1, points, result.pA.lat)
                \/ result.s2 # Null /\ MidpointOutsideAt(result.s2, points, result.pA.lat)

\* ---- C25 ----
\* C25: the straightLength of an anomalous result is the haversine distance
\* between pA and pB in yards, the length L that getEGDAnalysis reports for
\* the same diameter.
C25_StraightIsHaversine ==
  AnomalyReturned =>
    /\ result.anomalousResult.straightLength = Yards(calculateDistance(result.pA, result.pB))
    /\ result.anomalousResult.straightLength = result.L

\* ---- C27 ----
\* C27: a result of analyzeGreenShape with hasAnomaly = true carries an
\* anomalousResult that is not null (and reports its method): the diameter of
\* a basic result that is not null is never a degenerate axis for the
\* anomalous analysis.
C27_AnomalyHasResult ==
  (ShapeReturned /\ result.hasAnomaly) =>
      /\ result.isLShape
      /\ result.anomalousResult # Null
      /\ result.anomalousResult.isAnomalous
      /\ result.method = "Anomalous Green Detected"

\* C27 witness: an anomaly found on a perimeter of distinct points
C27_Witness ==
  /\ ShapeReturned
  /\ result.hasAnomaly
  /\ Cardinality(Range(points)) = Len(points)
  /\ result.anomalousResult # Null

\* ---- C26 ----
\* a Track record whose effective paths were computed without pivots
WithoutPivots(r) ==
  /\ r.type = "Track"
  /\ Len(r.raterPathPoints) >= 2
  /\ IF "pivotPoints" \in DOMAIN r THEN Len(r.pivotPoints) = 0 ELSE TRUE

\* C26: for a rater path of at least 2 points and no pivots, the scratch and
\* the bogey effective paths are both the rater path, point for point, and
\* the two distances are equal; so also for a path imported from KML
C26_PathsAreRaterPath ==
  \A i \in 1..Len(history) :
    WithoutPivots(history[i]) =>
      /\ history[i].effectivePaths.scratch = history[i].raterPathPoints
      /\ history[i].effectivePaths.bogey = history[i].raterPathPoints
      /\ history[i].effectiveDistances.scratch = history[i].effectiveDistances.bogey

\* ---- C28 ----
\* a step that leaves points in a changed mapPoints either adds one point to
\* the perimeter of an active mapping or starts a mapping at its first point
PointsAdded ==
  (mapPoints' # mapPoints /\ Len(mapPoints') > 0) =>
     \/ mapActive /\ Len(mapPoints') = Len(mapPoints) + 1
                  /\ SubSeq(mapPoints', 1, Len(mapPoints)) = mapPoints
     \/ ~mapActive /\ mapActive' /\ Len(mapPoints') = 1

\* C28: in the green mapper mapActive and mapCompleted are never both true,
\* and points are added to mapPoints only while mapActive is true
C28_ActiveOrCompleted ==
  [](~(mapActive /\ mapCompleted)) /\ [][PointsAdded]_vars

\* a second mapping is walked after a first was finalized
C28_Witness ==
  /\ mapActive
  /\ ~mapCompleted
  /\ Len(mapPoints) >= 2
  /\ Len(history) >= 1
  /\ history[1].type = "Green"

\* ---- C29 ----
\* CLOSE with fewer than 3 points changes nothing
CloseRefused == (CloseGreen /\ Len(mapPoints) < 3) => UNCHANGED vars

\* a fix that ends the mapping has saved a record of more than 20 points
ClosedByFix ==
  (pos' # pos /\ mapActive /\ ~mapActive') =>
     /\ Len(history') = Len(history) + 1
     /\ history'[1].type = "Green"
     /\ Len(history'[1].points) > 20
     /\ mapCompleted'

\* a step that saves a record while a green is walked saves a Green record of
\* at least 3 points, and only then does the mapping end
SavedByFinalizing ==
  /\ (mapActive /\ history' # history) => /\ history'[1].type = "Green"
                                          /\ Len(history'[1].points) >= 3
                                          /\ ~mapActive' /\ mapCompleted'
  /\ (mapActive /\ Len(mapPoints) < 3 /\ mapActive') => history' = history /\ mapCompleted' = mapCompleted

\* C29: handleFinalizeGreen with fewer than 3 points changes nothing; every
\* Green record saved by finalizing has at least 3 points; the automatic
\* closing fires only with more than 20 points recorded
C29_FinalizeGuard ==
  [][CloseRefused /\ ClosedByFix /\ SavedByFinalizing]_vars

\* a green of more than 20 points was closed automatically and saved, and a
\* new mapping of fewer than 3 points is active, its CLOSE button at hand
C29_Witness ==
  /\ GreenControls
  /\ mapActive
  /\ Len(mapPoints) < 3
  /\ Len(history) >= 1
  /\ history[1].type = "Green"
  /\ Len(history[1].points) > 20

\* ---- C30 ----
\* C30: holeNum stays within 1..18 after any sequence of increments,
\* decrements and openings of saved or KML-imported records
C30_HoleInRange == holeNum \in 1..18

====
